---------------------------- MODULE Spec2Model ----------------------------
(***************************************************************************)
(* Model of the citations-mvp front end: the hover preview tooltips        *)
(* (DOCXPreviewTooltip, PDFPreviewTooltip), the citation list with its     *)
(* debounced hover (CitationDisplay), the page viewer (PDFViewer), the     *)
(* upload page (HomePage) and the snippet samplers.                        *)
(*                                                                         *)
(* Texts are sequences of one-character strings, so that normalisation,    *)
(* substring search and offset mapping are computed character by           *)
(* character as the code does.                                             *)
(***************************************************************************)
EXTENDS Integers, Sequences, FiniteSets, TLC

(***************************************************************************)
(* Bounds of the model.                                                    *)
(***************************************************************************)
\* longest line text / search text enumerated for findTextContext
MaxTextLen == 3
\* longest list of (short) lines enumerated for findTextContext
MaxFindLines == 2
\* DOCX line index: paragraphs 0..MaxPara, sentences 0..MaxSent
MaxPara == 2
MaxSent == 1
\* PDF line index: y buckets 0, 2, .., 2*MaxBucket, at most MaxPdfLines lines
MaxBucket == 5
MaxPdfLines == 3
\* samplers: population size and requested count
MaxItems == 4
MaxCount == 5

None == "none"

Min(a, b) == IF a <= b THEN a ELSE b
\* c repeated n times
Rep(c, n) == [i \in 1..n |-> c]
MinOf(S) == CHOOSE m \in S : \A n \in S : m <= n
MaxOf(S) == CHOOSE m \in S : \A n \in S : m >= n

(***************************************************************************)
(* JavaScript string primitives used by the tooltips.                      *)
(***************************************************************************)
\* the characters \s matches among the characters of the model
IsWhitespace(c) == c \in {" ", "\t", "nbsp"}

toLowerCase(s) ==
    [i \in 1..Len(s) |-> IF s[i] = "A" THEN "a" ELSE IF s[i] = "B" THEN "b" ELSE s[i]]

RECURSIVE SkipWhitespace(_)
SkipWhitespace(s) ==
    IF s # <<>> /\ IsWhitespace(Head(s)) THEN SkipWhitespace(Tail(s)) ELSE s

\* s.replace(/\s+/g, ' ')
RECURSIVE CollapseWhitespace(_)
CollapseWhitespace(s) ==
    IF s = <<>> THEN <<>>
    ELSE IF IsWhitespace(Head(s))
         THEN <<" ">> \o CollapseWhitespace(SkipWhitespace(Tail(s)))
         ELSE <<Head(s)>> \o CollapseWhitespace(Tail(s))

RECURSIVE TrimEnd(_)
TrimEnd(s) ==
    IF s # <<>> /\ IsWhitespace(s[Len(s)]) THEN TrimEnd(SubSeq(s, 1, Len(s) - 1)) ELSE s

\* s.trim()
trim(s) == TrimEnd(SkipWhitespace(s))

IsQuote(c) == c \in {"\"", "'"}

\* s.replace(/^["']|["']$/g, ''): one leading quote, then one trailing quote
StripWrappingQuotes(s) ==
    LET a == IF s # <<>> /\ IsQuote(Head(s)) THEN Tail(s) ELSE s
    IN  IF a # <<>> /\ IsQuote(a[Len(a)]) THEN SubSeq(a, 1, Len(a) - 1) ELSE a

\* s.includes(t)
includes(s, t) == \E i \in 0..(Len(s) - Len(t)) : SubSeq(s, i + 1, i + Len(t)) = t

\* s.indexOf(t), 0-based, -1 when absent
indexOf(s, t) ==
    IF includes(s, t)
    THEN CHOOSE i \in 0..(Len(s) - Len(t)) :
            /\ SubSeq(s, i + 1, i + Len(t)) = t
            /\ \A j \in 0..(i - 1) : SubSeq(s, j + 1, j + Len(t)) # t
    ELSE -1

Clamp(n, len) == IF n < 0 THEN 0 ELSE IF n > len THEN len ELSE n

\* s.substring(a, b), 0-based, clamped, arguments swapped when a > b
substring(s, a, b) ==
    LET x == Clamp(a, Len(s))
        y == Clamp(b, Len(s))
        lo == IF x <= y THEN x ELSE y
        hi == IF x <= y THEN y ELSE x
    IN  SubSeq(s, lo + 1, hi)

NotFoundText == <<"T", "e", "x", "t", " ", "n", "o", "t", " ", "f", "o", "u", "n", "d">>
Nbsp == <<"nbsp">>
EmptyText == <<>>


(***************************************************************************)
(* DOCXPreviewTooltip: the context window by paragraph index.              *)
(* A line of the index is [text, paragraphIndex, startIndex].              *)
(***************************************************************************)
\* a miss answered with no row at all
DocxNotFoundNoRow == [lines |-> <<>>, highlightedIndex |-> 0]

DocxNotFound == [lines |-> <<NotFoundText>>, highlightedIndex |-> 0]

\* extractContextFromLines(textLines, targetParagraphIndex), with the
\* startIndex prop it reads from the component's closure
DocxExtractContextFromLines(textLines, targetParagraphIndex, startIndex) ==
    LET InTarget(l) == l.paragraphIndex = targetParagraphIndex
        InBefore(l) == l.paragraphIndex = targetParagraphIndex - 1
        InAfter(l)  == l.paragraphIndex = targetParagraphIndex + 1
        AtStart(l)  == l.startIndex = startIndex
        targetLines == SelectSeq(textLines, InTarget)
        found       == SelectSeq(targetLines, AtStart)
        targetLine  == IF found # <<>> THEN found[1] ELSE targetLines[1]
        linesBefore == SelectSeq(textLines, InBefore)
        linesAfter  == SelectSeq(textLines, InAfter)
        first       == IF linesBefore # <<>> THEN linesBefore[Len(linesBefore)].text
                       ELSE EmptyText
        last        == IF linesAfter # <<>> THEN linesAfter[1].text ELSE EmptyText
    IN  IF targetLines = <<>> THEN DocxNotFound
        ELSE [lines |-> <<first, targetLine.text, last>>,
              highlightedIndex |-> IF linesBefore # <<>> THEN 1 ELSE 0]

(***************************************************************************)
(* DOCXPreviewTooltip.findTextContext: fuzzy search for a text.            *)
(***************************************************************************)
\* the search text as normalised at the top of findTextContext
NormalizeSearchText(searchText) == trim(CollapseWhitespace(StripWrappingQuotes(searchText)))

\* a line's text as normalised inside the find callback
NormalizeLineText(text) == trim(CollapseWhitespace(text))

\* the find callback: does this line contain the search text?
LineMatches(line, normalizedSearchText) ==
    includes(toLowerCase(NormalizeLineText(line.text)), toLowerCase(normalizedSearchText))

\* the loop that maps the match back to offsets of the original text;
\* i is the 0-based loop index, np is normalizedPos
RECURSIVE MapBack(_, _, _, _, _, _, _)
MapBack(textContent, i, np, os, oe, startIndex, searchLen) ==
    IF i >= Len(textContent) THEN [originalStartIndex |-> os, originalEndIndex |-> oe]
    ELSE LET os1 == IF np = startIndex THEN i ELSE os
         IN  IF np = startIndex + searchLen
             THEN [originalStartIndex |-> os1, originalEndIndex |-> i]
             ELSE IF /\ textContent[i + 1] = " "
                     /\ i + 1 < Len(textContent)
                     /\ textContent[i + 2] = " "
                  THEN MapBack(textContent, i + 1, np, os1, oe, startIndex, searchLen)
                  ELSE MapBack(textContent, i + 1, np + 1, os1, oe, startIndex, searchLen)

\* the three segments cut out of the matched line
SplitMatchedLine(textContent, normalizedSearchText) ==
    LET startIndex == indexOf(toLowerCase(NormalizeLineText(textContent)),
                              toLowerCase(normalizedSearchText))
        m   == MapBack(textContent, 0, 0, 0, 0, startIndex, Len(normalizedSearchText))
        os  == m.originalStartIndex
        oe  == IF m.originalEndIndex = 0 THEN os + Len(normalizedSearchText)
               ELSE m.originalEndIndex
    IN  [beforeText |-> substring(textContent, 0, os),
         targetText |-> substring(textContent, os, oe),
         afterText  |-> substring(textContent, oe, Len(textContent))]

findTextContext(textLines, searchText) ==
    LET normalizedSearchText == NormalizeSearchText(searchText)
        Hit(l) == LineMatches(l, normalizedSearchText)
        hits   == SelectSeq(textLines, Hit)
    IN  IF hits = <<>> THEN DocxNotFound
        ELSE LET seg == SplitMatchedLine(hits[1].text, normalizedSearchText)
             IN  [lines |-> << IF seg.beforeText = <<>> THEN Nbsp ELSE seg.beforeText,
                               seg.targetText,
                               IF seg.afterText = <<>> THEN Nbsp ELSE seg.afterText >>,
                  highlightedIndex |-> 1]

(***************************************************************************)
(* PDFPreviewTooltip: the context window by target box.                    *)
(* A line of the index is [text, y, height]; the index is sorted by        *)
(* descending y (top of the page first).                                   *)
(***************************************************************************)
Abs(n) == IF n < 0 THEN -n ELSE n

\* the vertical tolerance of the box match
BoxTolerance == 5

\* first loop: the first line whose box matches the target box (0-based, -1)
PdfExactMatchIndex(textLines, targetY, targetHeight) ==
    LET Match(i) == /\ Abs(textLines[i].y - targetY) < BoxTolerance
                    /\ Abs((textLines[i].y + textLines[i].height)
                           - (targetY + targetHeight)) < BoxTolerance
    IN  IF \E i \in 1..Len(textLines) : Match(i)
        THEN (CHOOSE i \in 1..Len(textLines) :
                 Match(i) /\ \A j \in 1..(i - 1) : ~Match(j)) - 1
        ELSE -1

\* second loop: the first line at the least vertical distance (0-based, -1)
PdfClosestIndex(textLines, targetY) ==
    LET D(i) == Abs(textLines[i].y - targetY)
    IN  IF textLines = <<>> THEN -1
        ELSE (CHOOSE i \in 1..Len(textLines) :
                 /\ \A j \in 1..Len(textLines) : D(i) <= D(j)
                 /\ \A j \in 1..(i - 1) : D(j) > D(i)) - 1

PdfHighlightedLineIndex(textLines, targetY, targetHeight) ==
    IF PdfExactMatchIndex(textLines, targetY, targetHeight) # -1
    THEN PdfExactMatchIndex(textLines, targetY, targetHeight)
    ELSE PdfClosestIndex(textLines, targetY)

PdfNotFound == [lines |-> <<EmptyText, NotFoundText, EmptyText>>, highlightedIndex |-> 1]

\* the rows pushed around the line at 0-based index h
PdfContextRows(textLines, h) ==
    [lines |-> << IF h < Len(textLines) - 1 THEN textLines[h + 2].text ELSE EmptyText,
                  textLines[h + 1].text,
                  IF h > 0 THEN textLines[h].text ELSE EmptyText >>,
     highlightedIndex |-> IF h < Len(textLines) - 1 THEN 1 ELSE 0]

PdfExtractContextFromLines(textLines, targetY, targetHeight) ==
    LET h == PdfHighlightedLineIndex(textLines, targetY, targetHeight)
    IN  IF h >= 0 THEN PdfContextRows(textLines, h) ELSE PdfNotFound

(***************************************************************************)
(* The samplers.  An array is a sequence of snippet identities; the        *)
(* outcome of sort(() => 0.5 - Math.random()) is one of the permutations   *)
(* of the copy, whichever the comparator's answers produce.                *)
(***************************************************************************)
\* a prefix one element too long
sliceOneMore(arr, start, end) == SubSeq(arr, start + 1, IF end + 1 > Len(arr) THEN Len(arr) ELSE end + 1)

\* arr.slice(start, end) for 0 <= start, as Array.prototype.slice clamps it
slice(arr, start, end) ==
    LET e == IF end < 0 THEN (IF Len(arr) + end < 0 THEN 0 ELSE Len(arr) + end)
             ELSE (IF end > Len(arr) THEN Len(arr) ELSE end)
    IN  SubSeq(arr, start + 1, e)

\* every order [...snippets].sort(random comparator) can leave the copy in
ShuffleOutcomes(snippets) ==
    LET n == Len(snippets)
        perms == {f \in [1..n -> 1..n] : \A i, j \in 1..n : f[i] = f[j] => i = j}
    IN  {[i \in 1..n |-> snippets[f[i]]] : f \in perms}

\* getRandomSnippets and getRandomMultiLineSnippets: the returned array is
\* a new one (sameArray: is it the caller's array itself?)
getRandomSnippets(snippets, count, shuffled) ==
    [elems |-> slice(shuffled, 0, count), sameArray |-> FALSE]

\* getRandomDOCXSnippets and getRandomDOCXMultiLineSnippets
getRandomDOCXSnippets(snippets, count, shuffled) ==
    IF Len(snippets) <= count
    THEN [elems |-> snippets, sameArray |-> TRUE]
    ELSE [elems |-> slice(shuffled, 0, count), sameArray |-> FALSE]

Samplers == {"getRandomSnippets", "getRandomMultiLineSnippets",
             "getRandomDOCXSnippets", "getRandomDOCXMultiLineSnippets"}

RunSampler(name, snippets, count, shuffled) ==
    IF name \in {"getRandomSnippets", "getRandomMultiLineSnippets"}
    THEN getRandomSnippets(snippets, count, shuffled)
    ELSE getRandomDOCXSnippets(snippets, count, shuffled)

(***************************************************************************)
(* State.                                                                  *)
(***************************************************************************)
VARIABLES
    call,       \* relocation: the arguments of the call under way
    ret,        \* relocation: what it returned (NoReturn before it returns)
    smp,        \* sampler: [name, input, snippets, count, result, sample]
    tip,        \* a preview tooltip: props, refs, state, the extraction in flight
    viewer,     \* PDFViewer: state, refs, render tasks, the effect runs in flight
    home,       \* HomePage: state, the handleFileSelect calls in flight
    cd,         \* CitationDisplay: hover state, timeout ref, pending timers, pointer
    cit,        \* citation constructors: the clock (Date.now()) and the ids of each run
    up          \* PDFUploader: its state and the call under way

vars == <<call, ret, smp, tip, viewer, home, cd, cit, up>>

\* a call that has not returned yet, and one that returned v
NoReturn == [returned |-> FALSE]
Returned(v) == [returned |-> TRUE, value |-> v]

RelocIdle == call = [fn |-> None] /\ ret = NoReturn
SampleIdle == smp = [name |-> None]
TooltipIdle == tip = [kind |-> None]
ViewerIdle == viewer = [component |-> None]
HomeIdle == home = [component |-> None]
HoverIdle == cd = [component |-> None]
CitationsIdle == cit = [component |-> None]
UploaderIdle == up = [component |-> None]

\* every component but the one a specification is about is idle
IdleExcept(c) ==
    /\ IF c = "relocate" THEN TRUE ELSE RelocIdle
    /\ IF c = "sample" THEN TRUE ELSE SampleIdle
    /\ IF c = "tooltip" THEN TRUE ELSE TooltipIdle
    /\ IF c = "viewer" THEN TRUE ELSE ViewerIdle
    /\ IF c = "home" THEN TRUE ELSE HomeIdle
    /\ IF c = "hover" THEN TRUE ELSE HoverIdle
    /\ IF c = "citations" THEN TRUE ELSE CitationsIdle
    /\ IF c = "uploader" THEN TRUE ELSE UploaderIdle

(***************************************************************************)
(* Inputs of the relocation functions.                                     *)
(***************************************************************************)
Digit(n) == <<"0", "1", "2", "3", "4", "5", "6", "7", "8", "9">>[n + 1]

SeqsUpTo(S, n) == UNION {[1..k -> S] : k \in 0..n}

LineChars == {" ", "a", "A", "b"}
SearchChars == LineChars \cup {"\""}

\* findTextContext: one line of any text, or a list of short lines
FindLine(t, i) == [text |-> t, paragraphIndex |-> i - 1, startIndex |-> 0]
FindLineLists(maxLen, maxLines) ==
    {<<FindLine(t, 1)>> : t \in SeqsUpTo(LineChars, maxLen)}
    \cup {[i \in 1..Len(ts) |-> FindLine(ts[i], i)] :
             ts \in SeqsUpTo(SeqsUpTo(LineChars, 1), maxLines)}
FindCalls(maxLen, maxLines) ==
    {[fn |-> "findTextContext", textLines |-> ls, searchText |-> t] :
        ls \in FindLineLists(maxLen, maxLines), t \in SeqsUpTo(SearchChars, maxLen)}

\* DOCX line index: the sentences kept of paragraphs 0..MaxPara, in order
DocxSlots == (0..MaxPara) \X (0..MaxSent)
DocxLine(p, s) == [text |-> <<"p", Digit(p), "s", Digit(s)>>,
                   paragraphIndex |-> p, startIndex |-> s]
RECURSIVE DocxIndexFrom(_, _)
DocxIndexFrom(kept, g) ==
    IF g >= (MaxPara + 1) * (MaxSent + 1) THEN <<>>
    ELSE LET p == g \div (MaxSent + 1)
             s == g % (MaxSent + 1)
         IN  (IF <<p, s>> \in kept THEN <<DocxLine(p, s)>> ELSE <<>>)
             \o DocxIndexFrom(kept, g + 1)
DocxIndexes(slots) == {DocxIndexFrom(kept, 0) : kept \in SUBSET slots}
DocxCalls(slots) ==
    {[fn |-> "docxExtractContextFromLines", textLines |-> ls,
      targetParagraphIndex |-> p, startIndex |-> s] :
        ls \in DocxIndexes(slots), p \in (-1)..(MaxPara + 1), s \in 0..MaxSent}

\* PDF line index: one line per y bucket kept, top of the page first
PdfHeights == {4, 12}
PdfBuckets == 0..MaxBucket
PdfLine(b, h) == [text |-> <<"y", Digit(b)>>, y |-> 2 * b, height |-> h]
RECURSIVE PdfIndexFrom(_, _)
PdfIndexFrom(hs, b) ==
    IF b < 0 THEN <<>>
    ELSE (IF b \in DOMAIN hs THEN <<PdfLine(b, hs[b])>> ELSE <<>>)
         \o PdfIndexFrom(hs, b - 1)
PdfIndexes(maxLines) ==
    {PdfIndexFrom(hs, MaxBucket) :
        hs \in UNION {[B -> PdfHeights] :
                         B \in {X \in SUBSET PdfBuckets : Cardinality(X) <= maxLines}}}
PdfCalls(maxLines) ==
    {[fn |-> "pdfExtractContextFromLines", textLines |-> ls,
      targetY |-> y, targetHeight |-> h] :
        ls \in PdfIndexes(maxLines), y \in 0..(2 * MaxBucket), h \in PdfHeights}

InitRelocate ==
    /\ call \in FindCalls(MaxTextLen, MaxFindLines) \cup DocxCalls(DocxSlots) \cup PdfCalls(MaxPdfLines)
    /\ ret = NoReturn
    /\ IdleExcept("relocate")

CallFindTextContext ==
    /\ call.fn = "findTextContext" /\ ~ret.returned
    /\ ret' = Returned(findTextContext(call.textLines, call.searchText))
    /\ UNCHANGED <<call, smp, tip, viewer, home, cd, cit, up>>

CallDocxExtractContextFromLines ==
    /\ call.fn = "docxExtractContextFromLines" /\ ~ret.returned
    /\ ret' = Returned(DocxExtractContextFromLines(call.textLines,
                    call.targetParagraphIndex, call.startIndex))
    /\ UNCHANGED <<call, smp, tip, viewer, home, cd, cit, up>>

CallPdfExtractContextFromLines ==
    /\ call.fn = "pdfExtractContextFromLines" /\ ~ret.returned
    /\ ret' = Returned(PdfExtractContextFromLines(call.textLines, call.targetY,
                                                   call.targetHeight))
    /\ UNCHANGED <<call, smp, tip, viewer, home, cd, cit, up>>

NextRelocate ==
    \/ CallFindTextContext
    \/ CallDocxExtractContextFromLines
    \/ CallPdfExtractContextFromLines

SpecRelocate == InitRelocate /\ [][NextRelocate]_vars

(***************************************************************************)
(* Inputs of the samplers.                                                 *)
(***************************************************************************)
SnippetLists ==
    {s \in SeqsUpTo(1..MaxItems, MaxItems) : \A i, j \in 1..Len(s) : s[i] = s[j] => i = j}

InitSample ==
    /\ smp \in {[name |-> n, input |-> s, snippets |-> s, count |-> k, result |-> NoReturn,
                  sample |-> <<>>] :
                  n \in Samplers, s \in SnippetLists, k \in 0..MaxCount}
    /\ IdleExcept("sample")

\* one call: the copy is shuffled, the caller's array (snippets) is not touched
CallSampler ==
    /\ smp.name \in Samplers /\ ~smp.result.returned
    /\ \E shuffled \in ShuffleOutcomes(smp.snippets) :
          LET result == RunSampler(smp.name, smp.snippets, smp.count, shuffled)
          IN  smp' = [smp EXCEPT !.result = Returned(result), !.sample = result.elems]
    /\ UNCHANGED <<call, ret, tip, viewer, home, cd, cit, up>>

\* the caller changes the array it was handed (sample.pop()): smp.sample is
\* that array now, smp.result stays what the call returned; when the array
\* is the caller's input array itself, the input changes with it
CallerPopsSample ==
    /\ smp.name \in Samplers /\ smp.result.returned
    /\ smp.sample = smp.result.value.elems /\ Len(smp.sample) > 0
    /\ LET popped == SubSeq(smp.sample, 1, Len(smp.sample) - 1)
       IN  smp' = [smp EXCEPT !.sample = popped,
                              !.snippets = IF smp.result.value.sameArray THEN popped ELSE @]
    /\ UNCHANGED <<call, ret, tip, viewer, home, cd, cit, up>>

NextSample == CallSampler \/ CallerPopsSample

SpecSample == InitSample /\ [][NextSample]_vars

(***************************************************************************)
(* The preview tooltips as React components.  DOCXPreviewTooltip and       *)
(* PDFPreviewTooltip have the same effect, guard flag and cache; tip.kind  *)
(* says which one is modelled.  The parent passes props, mounts and        *)
(* unmounts; CitationDisplay mounts a tooltip only while its citation is   *)
(* hovered and passes URL.createObjectURL(file) of the one open document.  *)
(***************************************************************************)
\* how many computations of one line index are counted before the count saturates
MaxComputed == 2

\* object URLs of the open document
Urls == {"blob:1", "blob:2"}
Pages == {1, 2}

\* the line index extractContext derives from the open DOCX document
TooltipDocxIndex == DocxIndexFrom(DocxSlots, 0)

\* the line index extractContext derives from a page of the open PDF document
TooltipPdfIndex(page) ==
    IF page = 1 THEN PdfIndexFrom([b \in {0, 3, 5} |-> 12], 5)
    ELSE PdfIndexFrom([b \in {1, 4} |-> 12], 5)

DocxProps == [url : Urls, paragraphIndex : 0..MaxPara, startIndex : 0..MaxSent,
              isVisible : BOOLEAN]
PdfProps == [url : Urls, page : Pages, y : {0, 6, 10}, height : {12}, isVisible : BOOLEAN]
PropsOf(kind) == IF kind = "docx" THEN DocxProps ELSE PdfProps

\* cacheKey: `${docxUrl}` and `${pdfUrl}-${page}`
CacheKey(kind, props) == IF kind = "docx" THEN <<props.url>> ELSE <<props.url, props.page>>

\* the part of the open document a request is about (the whole document, or a page)
DocPart(kind, props) == IF kind = "docx" THEN 0 ELSE props.page
DocParts(kind) == IF kind = "docx" THEN {0} ELSE Pages

\* fetch and parse: the line index of the requested part
ParsedIndex(kind, props) ==
    IF kind = "docx" THEN TooltipDocxIndex ELSE TooltipPdfIndex(props.page)

\* a URL that carries a docx parameter in its query
UrlTargetTextOfQuery(url) == <<"p", "0", "s", "0">>

\* urlParams.get('docx') of the tooltip's docxUrl: an object URL has no query
UrlTargetText(url) == None

\* the context on a cache hit
HitContext(kind, cached, props) ==
    IF kind = "docx"
    THEN DocxExtractContextFromLines(cached, props.paragraphIndex, props.startIndex)
    ELSE PdfExtractContextFromLines(cached, props.y, props.height)

\* the context after a fetch and parse
MissContext(kind, textLines, props) ==
    IF kind = "docx"
    THEN IF UrlTargetText(props.url) # None
         THEN findTextContext(textLines, UrlTargetText(props.url))
         ELSE DocxExtractContextFromLines(textLines, props.paragraphIndex, props.startIndex)
    ELSE PdfExtractContextFromLines(textLines, props.y, props.height)

NoRun == [active |-> FALSE]

\* a freshly mounted instance: useState and useRef initial values
FreshTooltip(kind, props, computed) ==
    [kind |-> kind, mounted |-> TRUE, props |-> props,
     loading |-> FALSE, error |-> None,
     contextLines |-> <<>>, highlightedLineIndex |-> 1,
     textCache |-> <<>>, isExtracting |-> FALSE,
     run |-> NoRun, computed |-> computed]

Unmounted(kind, computed) == [kind |-> kind, mounted |-> FALSE, computed |-> computed]

CacheHas(t, key) == \E i \in 1..Len(t.textCache) : t.textCache[i].key = key
CacheGet(t, key) ==
    t.textCache[CHOOSE i \in 1..Len(t.textCache) : t.textCache[i].key = key].lines
CachePut(t, key, lines) ==
    IF CacheHas(t, key)
    THEN [i \in 1..Len(t.textCache) |->
             IF t.textCache[i].key = key THEN [key |-> key, lines |-> lines]
             ELSE t.textCache[i]]
    ELSE Append(t.textCache, [key |-> key, lines |-> lines])

\* the effect with dependencies [url, ..., isVisible], run with props p on
\* instance t: returns early when hidden or while an extraction is in
\* flight; otherwise extractContext() runs up to its first await
RunEffect(t, p) ==
    IF ~p.isVisible \/ p.url = "" \/ t.isExtracting THEN t
    ELSE IF CacheHas(t, CacheKey(t.kind, p))
         THEN LET context == HitContext(t.kind, CacheGet(t, CacheKey(t.kind, p)), p)
              IN  [t EXCEPT !.error = None,
                            !.contextLines = context.lines,
                            !.highlightedLineIndex = context.highlightedIndex,
                            !.loading = FALSE,
                            !.isExtracting = FALSE]
         ELSE [t EXCEPT !.isExtracting = TRUE,
                        !.loading = TRUE,
                        !.error = None,
                        !.run = [active |-> TRUE, props |-> p]]

InitTooltip ==
    /\ tip \in {Unmounted(k, [d \in DocParts(k) |-> 0]) : k \in {"docx", "pdf"}}
    /\ IdleExcept("tooltip")

\* the parent renders the tooltip: the instance is created, then its effect runs
Mount ==
    /\ tip.kind # None /\ ~tip.mounted
    /\ \E p \in PropsOf(tip.kind) :
          tip' = RunEffect(FreshTooltip(tip.kind, p, tip.computed), p)
    /\ UNCHANGED <<call, ret, smp, viewer, home, cd, cit, up>>

\* the parent re-renders the tooltip with other props: the effect runs again
SetProps ==
    /\ tip.kind # None /\ tip.mounted
    /\ \E p \in PropsOf(tip.kind) :
          /\ p # tip.props
          /\ tip' = RunEffect([tip EXCEPT !.props = p], p)
    /\ UNCHANGED <<call, ret, smp, viewer, home, cd, cit, up>>

\* the awaited fetch and parse of the extraction in flight complete: the
\* index is cached, the context of the request that started the extraction
\* is displayed, and the finally block clears the flag
ExtractionCompletes ==
    /\ tip.kind # None /\ tip.mounted /\ tip.run.active
    /\ LET p == tip.run.props
           textLines == ParsedIndex(tip.kind, p)
           context == MissContext(tip.kind, textLines, p)
           part == DocPart(tip.kind, p)
       IN  tip' = [tip EXCEPT
                     !.textCache = CachePut(tip, CacheKey(tip.kind, p), textLines),
                     !.contextLines = context.lines,
                     !.highlightedLineIndex = context.highlightedIndex,
                     !.loading = FALSE,
                     !.isExtracting = FALSE,
                     !.run = NoRun,
                     !.computed[part] = Min(@ + 1, MaxComputed)]
    /\ UNCHANGED <<call, ret, smp, viewer, home, cd, cit, up>>

\* the fetch or the parse throws: catch sets the error, finally clears the flag
ExtractionFails ==
    /\ tip.kind # None /\ tip.mounted /\ tip.run.active
    /\ tip' = [tip EXCEPT !.error = "Failed to extract text context",
                          !.loading = FALSE,
                          !.isExtracting = FALSE,
                          !.run = NoRun]
    /\ UNCHANGED <<call, ret, smp, viewer, home, cd, cit, up>>

\* the parent stops rendering the tooltip: state, refs and cache are dropped
\* (an extraction still in flight ends on the dropped instance)
Unmount ==
    /\ tip.kind # None /\ tip.mounted
    /\ tip' = Unmounted(tip.kind, tip.computed)
    /\ UNCHANGED <<call, ret, smp, viewer, home, cd, cit, up>>

NextTooltip == Mount \/ SetProps \/ ExtractionCompletes \/ ExtractionFails \/ Unmount

SpecTooltip == InitTooltip /\ [][NextTooltip]_vars

(***************************************************************************)
(* Requests during an extraction (C1) and memoization (C2).                *)
(***************************************************************************)
\* the context window of a request with props p
ContextFor(kind, p) == MissContext(kind, ParsedIndex(kind, p), p)

\* C1: a request that arrives while an extraction is in flight is not lost:
\* once no extraction is in flight (and none failed), the window displayed
\* by a visible tooltip is the one for the most recent request's parameters.
C1_LatestRequestDisplayed ==
    (tip.kind # None /\ tip.mounted /\ tip.props.isVisible
        /\ ~tip.isExtracting /\ tip.error = None) =>
        /\ tip.contextLines = ContextFor(tip.kind, tip.props).lines
        /\ tip.highlightedLineIndex = ContextFor(tip.kind, tip.props).highlightedIndex

\* C2: while the document stays open, the line index of the document (of
\* each page, for PDF) is fetched and parsed at most once, also across
\* hiding and showing the tooltip again.
C2_IndexComputedAtMostOnce ==
    tip.kind # None => \A d \in DocParts(tip.kind) : tip.computed[d] <= 1

(***************************************************************************)
(* PDFViewer.  Its effect depends on [pdfUrl, searchParams]; every run     *)
(* starts loadPDF, which after getDocument schedules renderPage with a     *)
(* 100 ms timeout that the cleanup does not clear.  A run of the effect    *)
(* is a process with the positions                                         *)
(*   "loadPDF"  awaiting getDocument                                       *)
(*   "timeout"  the setTimeout(..., 100) is pending                        *)
(*   "getPage"  renderPage awaits pdf.getPage                              *)
(*   "render"   renderPage awaits renderTaskRef.current.promise            *)
(*   "end"                                                                 *)
(* A render task is "pending" (drawing on the canvas), "cancelled",        *)
(* "failed" or "done".                                                     *)
(***************************************************************************)
MaxEffectRuns == 2

NoTask == 0
PdfUrlParams == {None, "doc.pdf"}

RenderError == "Failed to render PDF page."
LoadError == "Failed to load PDF"
NoUrlError == "No PDF URL provided"

InitViewer ==
    /\ IdleExcept("viewer")
    /\ viewer = [component |-> "PDFViewer", mounted |-> TRUE, loading |-> TRUE, error |-> None,
                 renderTaskRef |-> NoTask, isRenderingRef |-> FALSE,
                 tasks |-> <<>>, runs |-> <<>>, hasCleanup |-> FALSE]

EffectRunIds == IF viewer.component = None THEN {} ELSE 1..Len(viewer.runs)

\* setLoading / setError: a state update of an unmounted component is dropped
SetLoading(v, b) == IF v.mounted THEN [v EXCEPT !.loading = b] ELSE v
SetError(v, e) == IF v.mounted THEN [v EXCEPT !.error = e] ELSE v

\* canvasRef.current: the canvas is rendered unless the loading or the error
\* screen is
CanvasAvailable(v) == v.mounted /\ ~v.loading /\ v.error = None

PendingTasks(v) == {t \in 1..Len(v.tasks) : v.tasks[t] = "pending"}

\* the function the effect returns
EffectCleanup(v) ==
    IF v.renderTaskRef # NoTask
    THEN [v EXCEPT !.tasks[v.renderTaskRef] = IF @ = "pending" THEN "cancelled" ELSE @,
                   !.renderTaskRef = NoTask,
                   !.isRenderingRef = FALSE]
    ELSE [v EXCEPT !.isRenderingRef = FALSE]

CleanedUp(v) == IF v.hasCleanup THEN EffectCleanup(v) ELSE v

\* pdfUrl or searchParams change (or the component mounts): the previous
\* run's cleanup, then the effect
EffectRuns(pdfUrl) ==
    /\ viewer.component # None /\ viewer.mounted /\ Len(viewer.runs) < MaxEffectRuns
    /\ LET v == CleanedUp(viewer)
       IN  viewer' =
             IF pdfUrl = None
             THEN [v EXCEPT !.error = NoUrlError, !.loading = FALSE,
                            !.hasCleanup = FALSE,
                            !.runs = Append(@, [pc |-> "end", task |-> NoTask])]
             ELSE [v EXCEPT !.loading = TRUE, !.error = None,
                            !.hasCleanup = TRUE,
                            !.runs = Append(@, [pc |-> "loadPDF", task |-> NoTask])]
    /\ UNCHANGED <<call, ret, smp, tip, home, cd, cit, up>>

ViewerUnmounts ==
    /\ viewer.component # None /\ viewer.mounted
    /\ viewer' = [CleanedUp(viewer) EXCEPT !.mounted = FALSE, !.hasCleanup = FALSE]
    /\ UNCHANGED <<call, ret, smp, tip, home, cd, cit, up>>

\* getDocument resolves: the render is scheduled, finally setLoading(false)
GetDocumentResolves(r) ==
    /\ viewer.runs[r].pc = "loadPDF"
    /\ viewer' = [SetLoading(viewer, FALSE) EXCEPT !.runs[r].pc = "timeout"]
    /\ UNCHANGED <<call, ret, smp, tip, home, cd, cit, up>>

\* getDocument rejects or the 30 s timeout wins the race
GetDocumentRejects(r) ==
    /\ viewer.runs[r].pc = "loadPDF"
    /\ viewer' = [SetLoading(SetError(viewer, LoadError), FALSE) EXCEPT !.runs[r].pc = "end"]
    /\ UNCHANGED <<call, ret, smp, tip, home, cd, cit, up>>

\* the 100 ms timeout fires: renderPage up to its first await
TimeoutFires(r) ==
    /\ viewer.runs[r].pc = "timeout"
    /\ viewer' = IF viewer.isRenderingRef
                 THEN [viewer EXCEPT !.runs[r].pc = "end"]
                 ELSE [viewer EXCEPT !.isRenderingRef = TRUE, !.runs[r].pc = "getPage"]
    /\ UNCHANGED <<call, ret, smp, tip, home, cd, cit, up>>

\* getPage resolves: without a canvas renderPage returns, with one it
\* starts page.render and awaits the task
GetPageResolves(r) ==
    /\ viewer.runs[r].pc = "getPage"
    /\ viewer' =
         IF ~CanvasAvailable(viewer)
         THEN [viewer EXCEPT !.isRenderingRef = FALSE, !.runs[r].pc = "end"]
         ELSE [viewer EXCEPT !.tasks = Append(@, "pending"),
                             !.renderTaskRef = Len(viewer.tasks) + 1,
                             !.runs[r] = [pc |-> "render", task |-> Len(viewer.tasks) + 1]]
    /\ UNCHANGED <<call, ret, smp, tip, home, cd, cit, up>>

\* getPage rejects, or page.render refuses a canvas another task is
\* drawing on (pdf.js versions differ): catch, finally
GetPageOrRenderThrows(r) ==
    /\ viewer.runs[r].pc = "getPage"
    /\ viewer' = [SetError(viewer, RenderError) EXCEPT
                     !.isRenderingRef = FALSE, !.runs[r].pc = "end"]
    /\ UNCHANGED <<call, ret, smp, tip, home, cd, cit, up>>

\* the render task completes
RenderResolves(r) ==
    /\ viewer.runs[r].pc = "render"
    /\ viewer.tasks[viewer.runs[r].task] = "pending"
    /\ viewer' = [viewer EXCEPT !.tasks[viewer.runs[r].task] = "done",
                                !.renderTaskRef = NoTask,
                                !.isRenderingRef = FALSE,
                                !.runs[r].pc = "end"]
    /\ UNCHANGED <<call, ret, smp, tip, home, cd, cit, up>>

\* the render task fails by itself: catch, finally
RenderRejects(r) ==
    /\ viewer.runs[r].pc = "render"
    /\ viewer.tasks[viewer.runs[r].task] = "pending"
    /\ viewer' = [SetError(viewer, RenderError) EXCEPT
                     !.tasks[viewer.runs[r].task] = "failed",
                     !.isRenderingRef = FALSE,
                     !.runs[r].pc = "end"]
    /\ UNCHANGED <<call, ret, smp, tip, home, cd, cit, up>>

\* the task was cancelled by a cleanup: its promise rejects with
\* RenderingCancelledException, which renderPage catches like any error
RenderCancelled(r) ==
    /\ viewer.runs[r].pc = "render"
    /\ viewer.tasks[viewer.runs[r].task] = "cancelled"
    /\ viewer' = [SetError(viewer, RenderError) EXCEPT
                     !.isRenderingRef = FALSE,
                     !.runs[r].pc = "end"]
    /\ UNCHANGED <<call, ret, smp, tip, home, cd, cit, up>>

NextViewer ==
    \/ \E pdfUrl \in PdfUrlParams : EffectRuns(pdfUrl)
    \/ ViewerUnmounts
    \/ \E r \in EffectRunIds : GetDocumentResolves(r)
    \/ \E r \in EffectRunIds : GetDocumentRejects(r)
    \/ \E r \in EffectRunIds : TimeoutFires(r)
    \/ \E r \in EffectRunIds : GetPageResolves(r)
    \/ \E r \in EffectRunIds : GetPageOrRenderThrows(r)
    \/ \E r \in EffectRunIds : RenderResolves(r)
    \/ \E r \in EffectRunIds : RenderRejects(r)
    \/ \E r \in EffectRunIds : RenderCancelled(r)

SpecViewer == InitViewer /\ [][NextViewer]_vars

(***************************************************************************)
(* Renders on the canvas (C3) and cancelled renders (C4).                  *)
(***************************************************************************)
\* C3: at no time are two render tasks in progress on the canvas.
C3_OneRenderInProgress ==
    viewer.component # None => Cardinality(PendingTasks(viewer)) <= 1

\* C4: a step in which renderPage handles the rejection of a cancelled
\* render task leaves the error state as it was.
C4_CancelledRenderSetsNoError ==
    [][\A r \in EffectRunIds :
          (/\ viewer.runs[r].pc = "render"
           /\ viewer.tasks[viewer.runs[r].task] = "cancelled"
           /\ viewer'.runs[r].pc = "end") => viewer'.error = viewer.error]_vars

(***************************************************************************)
(* HomePage.  handleFileSelect is async: it stores the file, clears the    *)
(* other type's citations, awaits the extraction and then stores the       *)
(* citations.  resetFile clears the state and does not touch the calls     *)
(* in flight.  A citation is modelled by the file it was extracted from.   *)
(***************************************************************************)
MaxSelects == 2

Files == {"a.pdf", "b.pdf", "a.docx"}

\* getFileType: by the extension
getFileType(file) == IF file \in {"a.pdf", "b.pdf"} THEN "pdf" ELSE "docx"

\* what extraction, sampling and create...Citations can make of a file: no
\* citation (a document without eligible text) or citations of that file
CitationLists(file) == {<<>>, <<[file |-> file, id |-> 1]>>}

InitHome ==
    /\ IdleExcept("home")
    /\ home = [component |-> "HomePage",
            pdfFile |-> None, docxFile |-> None,
            pdfCitations |-> <<>>, docxCitations |-> <<>>,
            pdfMultiLineCitations |-> <<>>, docxMultiLineCitations |-> <<>>,
            fileType |-> None, loading |-> FALSE, useMultiLine |-> TRUE,
            selects |-> <<>>]

SelectIds == IF home.component = None THEN {} ELSE 1..Len(home.selects)

\* the mode toggle and the FileUploader are rendered
UploaderShown == home.component # None /\ home.pdfFile = None /\ home.docxFile = None

setUseMultiLine(b) ==
    /\ UploaderShown /\ home.useMultiLine # b
    /\ home' = [home EXCEPT !.useMultiLine = b]
    /\ UNCHANGED <<call, ret, smp, tip, viewer, cd, cit, up>>

\* handleFileSelect up to its first await
handleFileSelect(file, type) ==
    /\ UploaderShown /\ Len(home.selects) < MaxSelects
    /\ LET started == Append(home.selects,
                         [pc |-> "extract", file |-> file, type |-> type,
                          useMultiLine |-> home.useMultiLine,
                          outcome |-> None, error |-> None])
       IN  home' =
             IF type = "pdf"
             THEN [home EXCEPT !.loading = TRUE, !.pdfFile = file, !.docxFile = None,
                               !.docxCitations = <<>>, !.docxMultiLineCitations = <<>>,
                               !.selects = started]
             ELSE [home EXCEPT !.loading = TRUE, !.docxFile = file, !.pdfFile = None,
                               !.pdfCitations = <<>>, !.pdfMultiLineCitations = <<>>,
                               !.selects = started]
    /\ UNCHANGED <<call, ret, smp, tip, viewer, cd, cit, up>>

\* the awaited extraction of call i resolves: the rest of the try block, finally
ExtractionResolves(i, citations) ==
    /\ home.selects[i].pc = "extract"
    /\ LET c == home.selects[i]
           stored ==
             IF c.type = "pdf"
             THEN IF c.useMultiLine
                  THEN [home EXCEPT !.pdfMultiLineCitations = citations, !.pdfCitations = <<>>]
                  ELSE [home EXCEPT !.pdfCitations = citations, !.pdfMultiLineCitations = <<>>]
             ELSE IF c.useMultiLine
                  THEN [home EXCEPT !.docxMultiLineCitations = citations, !.docxCitations = <<>>]
                  ELSE [home EXCEPT !.docxCitations = citations, !.docxMultiLineCitations = <<>>]
       IN  home' = [stored EXCEPT !.fileType = c.type, !.loading = FALSE,
                                  !.selects[i].pc = "end",
                                  !.selects[i].outcome = "stored"]
    /\ UNCHANGED <<call, ret, smp, tip, viewer, cd, cit, up>>

\* the error the extraction rejects with: the DOCX functions wrap the cause,
\* the PDF functions let the rejection of pdf.js through
ExtractionError(type, multiLine) ==
    IF type = "docx"
    THEN IF multiLine
         THEN "Failed to extract multi-line text from DOCX file: cause"
         ELSE "Failed to extract text from DOCX file: cause"
    ELSE "cause"

\* a catch without the finally block
ExtractionRejectsNoFinally(i) ==
    /\ home.selects[i].pc = "extract"
    /\ home' = [home EXCEPT !.selects[i].pc = "end", !.selects[i].outcome = "alert",
                            !.selects[i].error =
                                ExtractionError(home.selects[i].type,
                                                home.selects[i].useMultiLine)]
    /\ UNCHANGED <<call, ret, smp, tip, viewer, cd, cit, up>>

\* the awaited extraction of call i rejects: catch (console.error, alert),
\* finally
ExtractionRejects(i) ==
    /\ home.selects[i].pc = "extract"
    /\ home' = [home EXCEPT !.loading = FALSE, !.selects[i].pc = "end",
                            !.selects[i].outcome = "alert",
                            !.selects[i].error =
                                ExtractionError(home.selects[i].type,
                                                home.selects[i].useMultiLine)]
    /\ UNCHANGED <<call, ret, smp, tip, viewer, cd, cit, up>>

\* the close button, rendered with the file info
resetFile ==
    /\ home.component # None /\ ~UploaderShown
    /\ home' = [home EXCEPT !.pdfFile = None, !.docxFile = None,
                            !.pdfCitations = <<>>, !.docxCitations = <<>>,
                            !.pdfMultiLineCitations = <<>>, !.docxMultiLineCitations = <<>>,
                            !.fileType = None]
    /\ UNCHANGED <<call, ret, smp, tip, viewer, cd, cit, up>>

NextHome ==
    \/ \E b \in BOOLEAN : setUseMultiLine(b)
    \/ \E file \in Files : handleFileSelect(file, getFileType(file))
    \/ \E i \in SelectIds : \E citations \in CitationLists(home.selects[i].file) :
          ExtractionResolves(i, citations)
    \/ \E i \in SelectIds : ExtractionRejects(i)
    \/ resetFile

SpecHome == InitHome /\ [][NextHome]_vars

\* the CitationDisplay elements HomePage renders: [citations, file]
RenderedCitationDisplays ==
    IF home.component = None \/ home.loading THEN {}
    ELSE
      (IF home.fileType = "pdf" /\ home.pdfFile # None
       THEN (IF home.useMultiLine /\ Len(home.pdfMultiLineCitations) > 0
             THEN {[citations |-> home.pdfMultiLineCitations, file |-> home.pdfFile]}
             ELSE {})
            \cup
            (IF ~home.useMultiLine /\ Len(home.pdfCitations) > 0
             THEN {[citations |-> home.pdfCitations, file |-> home.pdfFile]}
             ELSE {})
       ELSE {})
      \cup
      (IF home.fileType = "docx" /\ home.docxFile # None
       THEN (IF home.useMultiLine /\ Len(home.docxMultiLineCitations) > 0
             THEN {[citations |-> home.docxMultiLineCitations, file |-> home.docxFile]}
             ELSE {})
            \cup
            (IF ~home.useMultiLine /\ Len(home.docxCitations) > 0
             THEN {[citations |-> home.docxCitations, file |-> home.docxFile]}
             ELSE {})
       ELSE {})

(***************************************************************************)
(* Citations and the current document (C5).                                *)
(***************************************************************************)
\* C5: every citation of a rendered citation list was extracted from the
\* file the list is displayed with and linked to.
C5_CitationsOfCurrentDocument ==
    \A d \in RenderedCitationDisplays :
        \A k \in 1..Len(d.citations) : d.citations[k].file = d.file

(***************************************************************************)
(* CitationDisplay: the hover debounce.  handleMouseEnter replaces the     *)
(* pending timeout by a new one of 300 ms whose callback sets              *)
(* hoveredCitation; handleMouseLeave clears the timeout and the hover.     *)
(* cd.timers are the timeouts the browser still has pending, cd.pointerOver *)
(* is the button the pointer is over.                                      *)
(***************************************************************************)
MaxTimers == 6

CitationIds == {"citation-1", "citation-2", "citation-3"}
NoTimer == 0

InitHover ==
    /\ IdleExcept("hover")
    /\ cd = [component |-> "CitationDisplay", mounted |-> TRUE,
          hoveredCitation |-> None, tooltipAbove |-> TRUE,
             hoverTimeoutRef |-> NoTimer,
             timers |-> {}, nextTimer |-> 1, pointerOver |-> None]

PendingTimers == IF cd.component = None THEN {} ELSE cd.timers

\* clearTimeout(id): a timeout that fired or was cleared is not pending
clearTimeout(timers, id) == {t \in timers : t.id # id}

\* handleMouseEnter that does not clear the pending timeout
handleMouseEnterNoClear(citationId) ==
    /\ cd.component # None /\ cd.mounted
    /\ cd.pointerOver # citationId /\ cd.nextTimer <= MaxTimers
    /\ cd' = [cd EXCEPT !.timers = @ \cup {[id |-> cd.nextTimer, citationId |-> citationId]},
                        !.hoverTimeoutRef = cd.nextTimer,
                        !.nextTimer = @ + 1,
                        !.pointerOver = citationId]
    /\ UNCHANGED <<call, ret, smp, tip, viewer, home, cit, up>>

\* the pointer enters the button of citationId
handleMouseEnter(citationId) ==
    /\ cd.component # None /\ cd.mounted
    /\ cd.pointerOver # citationId /\ cd.nextTimer <= MaxTimers
    /\ LET cleared == IF cd.hoverTimeoutRef # NoTimer
                      THEN clearTimeout(cd.timers, cd.hoverTimeoutRef)
                      ELSE cd.timers
       IN  cd' = [cd EXCEPT !.timers = cleared \cup
                                          {[id |-> cd.nextTimer, citationId |-> citationId]},
                            !.hoverTimeoutRef = cd.nextTimer,
                            !.nextTimer = @ + 1,
                            !.pointerOver = citationId]
    /\ UNCHANGED <<call, ret, smp, tip, viewer, home, cit, up>>

\* the pointer leaves the button it is over
handleMouseLeave ==
    /\ cd.component # None /\ cd.mounted /\ cd.pointerOver # None
    /\ cd' = [cd EXCEPT !.timers = IF cd.hoverTimeoutRef # NoTimer
                                   THEN clearTimeout(@, cd.hoverTimeoutRef) ELSE @,
                        !.hoveredCitation = None,
                        !.pointerOver = None]
    /\ UNCHANGED <<call, ret, smp, tip, viewer, home, cit, up>>

\* a pending timeout fires: with the button mounted its callback places the
\* tooltip (above the button only if there is no room below) and sets the hover
HoverTimeoutFires(t, above) ==
    /\ t \in cd.timers
    /\ cd' = IF cd.mounted
             THEN [cd EXCEPT !.timers = @ \ {t},
                             !.tooltipAbove = above,
                             !.hoveredCitation = t.citationId]
             ELSE [cd EXCEPT !.timers = @ \ {t}]
    /\ UNCHANGED <<call, ret, smp, tip, viewer, home, cit, up>>

\* the unmount cleanup
CitationDisplayUnmounts ==
    /\ cd.component # None /\ cd.mounted
    /\ cd' = [cd EXCEPT !.timers = IF cd.hoverTimeoutRef # NoTimer
                                   THEN clearTimeout(@, cd.hoverTimeoutRef) ELSE @,
                        !.mounted = FALSE,
                        !.hoveredCitation = None,
                        !.pointerOver = None]
    /\ UNCHANGED <<call, ret, smp, tip, viewer, home, cit, up>>

NextHover ==
    \/ \E citationId \in CitationIds : handleMouseEnter(citationId)
    \/ handleMouseLeave
    \/ \E t \in PendingTimers : \E above \in BOOLEAN : HoverTimeoutFires(t, above)
    \/ CitationDisplayUnmounts

SpecHover == InitHover /\ [][NextHover]_vars

(***************************************************************************)
(* The hover debounce (C6).                                                *)
(***************************************************************************)
\* at most one timeout is pending; it is the one in hoverTimeoutRef and it
\* belongs to the citation the pointer is over
OnePendingTimerOfPointer ==
    cd.component # None =>
        /\ Cardinality(cd.timers) <= 1
        /\ \A t \in cd.timers : t.id = cd.hoverTimeoutRef /\ t.citationId = cd.pointerOver

\* hoveredCitation is set only by the timeout of the most recent enter, and
\* only to the citation the pointer is still over
HoverSetOnlyByLatestEnter ==
    (cd.component # None /\ cd'.hoveredCitation # cd.hoveredCitation
        /\ cd'.hoveredCitation # None) =>
        /\ cd'.hoveredCitation = cd.pointerOver
        /\ \E t \in cd.timers : /\ t.id = cd.hoverTimeoutRef
                                /\ t.citationId = cd'.hoveredCitation
                                /\ t \notin cd'.timers

\* C6: at any time at most one hover timeout is pending, and hoveredCitation
\* is set only by the timeout of the most recent handleMouseEnter, never for
\* a citation the pointer has left or whose enter was followed by another.
C6_DebounceLatestEnterOnly ==
    [](OnePendingTimerOfPointer) /\ [][HoverSetOnlyByLatestEnter]_vars

\* a timeout was replaced by a later enter, and the later one has fired
C6_Witness ==
    /\ cd.component # None
    /\ cd.nextTimer > 2
    /\ cd.hoveredCitation # None
    /\ cd.hoveredCitation = cd.pointerOver
    /\ cd.timers = {}

(***************************************************************************)
(* The citation constructors.  An id is a prefix, the index of the snippet *)
(* in the list and Date.now() at the time the element is mapped; the DOCX  *)
(* multi-line constructor leaves the index out for a snippet whose text    *)
(* contains the sentence of the hardcoded ISM section.  A snippet is       *)
(* modelled by whether its text contains that sentence.                    *)
(***************************************************************************)
MaxNow == 2
MaxRuns == 2
MaxSnippets == 2

Constructors == {"createCitations", "createMultiLineCitations",
                 "createDOCXCitations", "createDOCXMultiLineCitations"}

IdPrefix(constructor) ==
    CASE constructor = "createCitations" -> "citation"
      [] constructor = "createMultiLineCitations" -> "multiline-citation"
      [] constructor = "createDOCXCitations" -> "docx-citation"
      [] OTHER -> "docx-multiline-citation"

\* the id of the element at index (from 0) mapped at time now
CitationId(constructor, snippet, index, now) ==
    IF constructor = "createDOCXMultiLineCitations" /\ snippet.isHardcodedISM
    THEN <<"docx-multiline-citation-ism-test", now>>
    ELSE <<IdPrefix(constructor), index, now>>

\* snippets.map((snippet, index) => ...), Date.now() read at times[i+1]
CreateCitations(constructor, snippets, times) ==
    [i \in 1..Len(snippets) |->
        [id |-> CitationId(constructor, snippets[i], i - 1, times[i]),
         snippet |-> snippets[i]]]

SnippetInputs == SeqsUpTo([isHardcodedISM : BOOLEAN], MaxSnippets)

\* the values Date.now() can take while n elements are mapped: never back
ClockReadings(now, n) ==
    {t \in [1..n -> now..MaxNow] : \A i \in 1..n : i > 1 => t[i - 1] <= t[i]}

InitCitations ==
    /\ IdleExcept("citations")
    /\ cit = [component |-> "constructors", now |-> 0, runs |-> <<>>]

\* time passes
ClockAdvances ==
    /\ cit.component # None /\ cit.now < MaxNow
    /\ cit' = [cit EXCEPT !.now = @ + 1]
    /\ UNCHANGED <<call, ret, smp, tip, viewer, home, cd, up>>

\* one sampling run ends in a call of a constructor
CallConstructor(constructor, snippets) ==
    /\ cit.component # None /\ Len(cit.runs) < MaxRuns
    /\ \E times \in ClockReadings(cit.now, Len(snippets)) :
          cit' = [cit EXCEPT
                    !.runs = Append(@, CreateCitations(constructor, snippets, times)),
                    !.now = IF Len(snippets) = 0 THEN @ ELSE times[Len(snippets)]]
    /\ UNCHANGED <<call, ret, smp, tip, viewer, home, cd, up>>

NextCitations ==
    \/ ClockAdvances
    \/ \E constructor \in Constructors : \E snippets \in SnippetInputs :
          CallConstructor(constructor, snippets)

SpecCitations == InitCitations /\ [][NextCitations]_vars

(***************************************************************************)
(* Citation ids (C12).                                                     *)
(***************************************************************************)
CitationRuns == IF cit.component = None THEN <<>> ELSE cit.runs

\* C12: the ids returned by one constructor call are pairwise distinct, and
\* an id returned by one run is not returned by a later run.
C12_IdsUniqueNeverReused ==
    /\ \A r \in 1..Len(CitationRuns) : \A i, j \in 1..Len(CitationRuns[r]) :
          CitationRuns[r][i].id = CitationRuns[r][j].id => i = j
    /\ \A r, q \in 1..Len(CitationRuns) : r < q =>
          \A i \in 1..Len(CitationRuns[r]) : \A j \in 1..Len(CitationRuns[q]) :
              CitationRuns[r][i].id # CitationRuns[q][j].id

(***************************************************************************)
(* The block groupers.  groupTextItemsIntoBlocks sorts the text items of   *)
(* a PDF page and folds them, one item per step, into blocks of lines;     *)
(* groupDOCXTextLinesIntoBlocks folds the lines of a DOCX document.  The   *)
(* pass is modelled step by step: call holds the sorted input, the index   *)
(* of the next element, the blocks pushed so far and currentBlock (a       *)
(* sequence of no or one block, for null).                                 *)
(***************************************************************************)
MaxBlockItems == 3

lineTolerance == 8
blockTolerance == 25
blockXTolerance == 100
docxBlockTolerance == 30
sortLineTolerance == 5
indentWidth == 20

Bullets == {"bullet"}
Digits == {"0", "1", "2", "3", "4", "5", "6", "7", "8", "9"}
RomanLetters == {"i", "v", "x", "I", "V", "X"}
Letters == {"a", "b", "A", "B"} \cup RomanLetters

\* /^[class]+\./ on s
StartsWithRunAndDot(s, class) ==
    \E n \in 1..Len(s) : /\ n < Len(s) /\ s[n + 1] = "."
                         /\ \A k \in 1..n : s[k] \in class

\* isListItem(text, x): bullet, digits and dot, one letter and dot, roman numeral and dot
isListItem(text) ==
    LET t == trim(text)
    IN  \/ (Len(t) > 0 /\ t[1] \in Bullets)
        \/ StartsWithRunAndDot(t, Digits)
        \/ (Len(t) > 1 /\ t[1] \in Letters /\ t[2] = ".")
        \/ StartsWithRunAndDot(t, RomanLetters)

\* getIndentLevel(x) == Math.floor(x / 20)
getIndentLevel(x) == x \div indentWidth

\* the comparator of the sort: negative when a goes first
ItemGoesBefore(a, b) ==
    IF Abs(a.y - b.y) < sortLineTolerance THEN a.x < b.x ELSE a.y > b.y

RECURSIVE InsertItem(_, _)
InsertItem(sorted, item) ==
    IF sorted = <<>> THEN <<item>>
    ELSE IF ItemGoesBefore(item, sorted[1]) THEN <<item>> \o sorted
    ELSE <<sorted[1]>> \o InsertItem(Tail(sorted), item)

\* [...textItems].sort(...): stable, for item sets the comparator orders
RECURSIVE SortItems(_)
SortItems(textItems) ==
    IF textItems = <<>> THEN <<>>
    ELSE InsertItem(SortItems(SubSeq(textItems, 1, Len(textItems) - 1)),
                    textItems[Len(textItems)])

\* the line a PDF text item starts
LineOfItem(item) ==
    [text |-> item.text, x |-> item.x, y |-> item.y, width |-> item.width,
     height |-> item.height, fontSize |-> item.fontSize,
     isListItem |-> isListItem(item.text), indentLevel |-> getIndentLevel(item.x)]

\* a block of one line
NewBlock(line) ==
    [lines |-> <<line>>, totalText |-> line.text,
     minX |-> line.x, maxX |-> line.x + line.width,
     minY |-> line.y, maxY |-> line.y + line.height]

Max(a, b) == IF a >= b THEN a ELSE b

\* the block with the line appended: box extended, text appended after "\n"
BlockWithLine(block, line) ==
    [lines |-> Append(block.lines, line),
     totalText |-> block.totalText \o <<"\n">> \o line.text,
     minX |-> Min(block.minX, line.x), maxX |-> Max(block.maxX, line.x + line.width),
     minY |-> Min(block.minY, line.y), maxY |-> Max(block.maxY, line.y + line.height)]

\* the same-line branch: the item is appended to the block's last line
BlockWithItemOnLastLine(block, item) ==
    LET n == Len(block.lines)
        lastLine == block.lines[n]
    IN  [block EXCEPT !.lines[n] =
            [lastLine EXCEPT !.text = @ \o <<" ">> \o item.text,
                             !.width = Max(@, item.x + item.width - lastLine.x)]]

\* one iteration of sortedItems.forEach in groupTextItemsIntoBlocks
GroupItem(blocks, currentBlock, item) ==
    IF currentBlock = <<>>
    THEN [blocks |-> blocks, currentBlock |-> <<NewBlock(LineOfItem(item))>>]
    ELSE LET block == currentBlock[1]
             lastLine == block.lines[Len(block.lines)]
             yDistance == Abs(item.y - lastLine.y)
             xDistance == Abs(item.x - lastLine.x)
         IN  IF yDistance <= lineTolerance
             THEN [blocks |-> blocks,
                   currentBlock |-> <<BlockWithItemOnLastLine(block, item)>>]
             ELSE IF yDistance <= blockTolerance /\ xDistance <= blockXTolerance
             THEN [blocks |-> blocks,
                   currentBlock |-> <<BlockWithLine(block, LineOfItem(item))>>]
             ELSE [blocks |-> Append(blocks, block),
                   currentBlock |-> <<NewBlock(LineOfItem(item))>>]

\* isDOCXListItem(text): the patterns of isListItem and /^[-*+]/
isDOCXListItem(text) ==
    \/ isListItem(text)
    \/ (Len(trim(text)) > 0 /\ trim(text)[1] \in {"-", "*", "+"})

\* getDOCXListType(text); None for undefined
getDOCXListType(text) ==
    LET t == trim(text)
    IN  IF Len(t) > 0 /\ t[1] \in Bullets THEN "bullet"
        ELSE IF StartsWithRunAndDot(t, Digits) THEN "numbered"
        ELSE IF StartsWithRunAndDot(t, RomanLetters) THEN "roman"
        ELSE IF Len(t) > 1 /\ t[1] \in Letters /\ t[2] = "." THEN "alpha"
        ELSE None

\* getDOCXIndentLevel(text): leading whitespace, two characters a level
getDOCXIndentLevel(text) == (Len(text) - Len(SkipWhitespace(text))) \div 2

endsWith(s, c) == Len(s) > 0 /\ s[Len(s)] = c
HasListMark(s) == (\E i \in 1..Len(s) : s[i] \in Bullets \cup {"-"}) \/ StartsWithRunAndDot(s, Digits)

\* a relatedness without the rule of the colon
isRelatedDOCXLineWithoutColon(line1, line2) ==
    \/ (line1.isListItem /\ line2.isListItem /\ line1.listType = line2.listType)
    \/ Abs(line1.indentLevel - line2.indentLevel) <= 1
    \/ (HasListMark(toLowerCase(line1.text)) /\ HasListMark(toLowerCase(line2.text)))

isRelatedDOCXLine(line1, line2) ==
    \/ (line1.isListItem /\ line2.isListItem /\ line1.listType = line2.listType)
    \/ Abs(line1.indentLevel - line2.indentLevel) <= 1
    \/ (endsWith(toLowerCase(line1.text), ":") /\ Len(line2.text) > 0)
    \/ (HasListMark(toLowerCase(line1.text)) /\ HasListMark(toLowerCase(line2.text)))

\* the DOCXTextLine extractMultiLineTextFromDOCX makes of paragraph number index
DocxTextLine(paragraph, index) ==
    [text |-> trim(paragraph), paragraphIndex |-> index,
     x |-> 0, y |-> index * 25, width |-> Min(Len(paragraph) * 7, 800), height |-> 20,
     isListItem |-> isDOCXListItem(paragraph),
     indentLevel |-> getDOCXIndentLevel(paragraph),
     listType |-> getDOCXListType(paragraph)]

DocxTextLines(paragraphs) ==
    [i \in 1..Len(paragraphs) |-> DocxTextLine(paragraphs[i], i - 1)]

\* one iteration of textLines.forEach in groupDOCXTextLinesIntoBlocks
GroupDocxLine(blocks, currentBlock, line) ==
    IF currentBlock = <<>>
    THEN [blocks |-> blocks, currentBlock |-> <<NewBlock(line)>>]
    ELSE LET block == currentBlock[1]
             lastLine == block.lines[Len(block.lines)]
             yDistance == Abs(line.y - lastLine.y)
         IN  IF yDistance <= docxBlockTolerance /\ isRelatedDOCXLine(lastLine, line)
             THEN [blocks |-> blocks, currentBlock |-> <<BlockWithLine(block, line)>>]
             ELSE [blocks |-> Append(blocks, block), currentBlock |-> <<NewBlock(line)>>]

\* text items of a PDF page: on one line (y 100 and 94), on the next line
\* (80), far below (40); near and far to the right
GroupItems ==
    [text : {<<"a">>}, x : {0, 30, 150}, y : {100, 94, 80, 40},
     width : {20, 60}, height : {10}, fontSize : {12}]

\* paragraphs of a DOCX document
GroupParagraphs ==
    {<<"a", "b">>, <<"a", ":">>, <<"-", "a">>, <<"1", ".", "a">>,
     <<" ", " ", " ", " ", "a">>, <<"bullet", "a">>,
     <<" ", " ", " ", " ", "a", "-", "b">>}

GroupCalls(maxItems) ==
    {[fn |-> "groupTextItemsIntoBlocks", input |-> SortItems(textItems), next |-> 1,
      blocks |-> <<>>, currentBlock |-> <<>>] :
        textItems \in SeqsUpTo(GroupItems, maxItems)}
    \cup
    {[fn |-> "groupDOCXTextLinesIntoBlocks", input |-> DocxTextLines(paragraphs), next |-> 1,
      blocks |-> <<>>, currentBlock |-> <<>>] :
        paragraphs \in SeqsUpTo(GroupParagraphs, maxItems)}

Groupers == {"groupTextItemsIntoBlocks", "groupDOCXTextLinesIntoBlocks"}

InitBlocks ==
    /\ call \in GroupCalls(MaxBlockItems)
    /\ ret = NoReturn
    /\ IdleExcept("relocate")

\* forEach takes the next text item
GroupNextItem ==
    /\ call.fn = "groupTextItemsIntoBlocks" /\ ~ret.returned
    /\ call.next <= Len(call.input)
    /\ LET g == GroupItem(call.blocks, call.currentBlock, call.input[call.next])
       IN  call' = [call EXCEPT !.blocks = g.blocks, !.currentBlock = g.currentBlock,
                                !.next = @ + 1]
    /\ UNCHANGED <<ret, smp, tip, viewer, home, cd, cit, up>>

\* forEach takes the next DOCX line
GroupNextDocxLine ==
    /\ call.fn = "groupDOCXTextLinesIntoBlocks" /\ ~ret.returned
    /\ call.next <= Len(call.input)
    /\ LET g == GroupDocxLine(call.blocks, call.currentBlock, call.input[call.next])
       IN  call' = [call EXCEPT !.blocks = g.blocks, !.currentBlock = g.currentBlock,
                                !.next = @ + 1]
    /\ UNCHANGED <<ret, smp, tip, viewer, home, cd, cit, up>>

\* after the loop: the last block is pushed and the blocks are returned
GroupReturns ==
    /\ call.fn \in Groupers /\ ~ret.returned
    /\ call.next > Len(call.input)
    /\ call' = [call EXCEPT !.blocks = @ \o call.currentBlock, !.currentBlock = <<>>]
    /\ ret' = Returned(call'.blocks)
    /\ UNCHANGED <<smp, tip, viewer, home, cd, cit, up>>

NextBlocks == GroupNextItem \/ GroupNextDocxLine \/ GroupReturns

SpecBlocks == InitBlocks /\ [][NextBlocks]_vars

\* paragraphs of a DOCX document with colons: a plain, an indented and a list
\* paragraph that end with ':'
ColonParagraphs ==
    GroupParagraphs \cup
    {<<" ", " ", " ", " ", "a", ":">>, <<"-", "a", ":">>, <<"a", ":", "b">>}

\* groupDOCXTextLinesIntoBlocks is called with the lines of a document
InitDocxBlocks ==
    /\ call \in {[fn |-> "groupDOCXTextLinesIntoBlocks", input |-> DocxTextLines(paragraphs),
                  next |-> 1, blocks |-> <<>>, currentBlock |-> <<>>] :
                    paragraphs \in SeqsUpTo(ColonParagraphs, MaxBlockItems)}
    /\ ret = NoReturn
    /\ IdleExcept("relocate")

NextDocxBlocks == GroupNextDocxLine \/ GroupReturns

SpecDocxBlocks == InitDocxBlocks /\ [][NextDocxBlocks]_vars

(***************************************************************************)
(* Blocks: bounding box (C13) and text (C14).                              *)
(***************************************************************************)
\* the blocks that exist during and after a pass
BlocksInHand == IF call.fn \in Groupers THEN call.blocks \o call.currentBlock ELSE <<>>


BoxIsUnionOfLines(block) ==
    LET ls == {block.lines[i] : i \in 1..Len(block.lines)}
    IN  /\ block.minX = MinOf({l.x : l \in ls})
        /\ block.maxX = MaxOf({l.x + l.width : l \in ls})
        /\ block.minY = MinOf({l.y : l \in ls})
        /\ block.maxY = MaxOf({l.y + l.height : l \in ls})

\* C13: at every step of either grouper each block's box is the exact union
\* of its member lines' boxes, so it contains every member line's box.
C13_BlockBoxIsUnion ==
    \A b \in 1..Len(BlocksInHand) : BoxIsUnionOfLines(BlocksInHand[b])

RECURSIVE JoinLines(_)
JoinLines(lines) ==
    IF Len(lines) = 1 THEN lines[1].text
    ELSE JoinLines(SubSeq(lines, 1, Len(lines) - 1)) \o <<"\n">> \o lines[Len(lines)].text

\* C14: at every step of either grouper each block's totalText is the texts
\* of its member lines, in order, joined by one newline.
C14_BlockTextIsJoinedLines ==
    \A b \in 1..Len(BlocksInHand) :
        BlocksInHand[b].totalText = JoinLines(BlocksInHand[b].lines)

(***************************************************************************)
(* The block classifiers.                                                  *)
(***************************************************************************)
MaxClassLines == 4

headingFontSize == 14
headingMaxLength == 100

\* lines.filter(line => line.isListItem).length
listItemCount(lines) == Cardinality({i \in 1..Len(lines) : lines[i].isListItem})

\* hasTableStructure: more than two distinct x positions
hasTableStructure(lines) ==
    IF Len(lines) < 2 THEN FALSE
    ELSE Cardinality({lines[i].x : i \in 1..Len(lines)}) > 2

\* hasDOCXTableStructure: a tab or a pipe in some line
hasDOCXTableStructure(lines) ==
    IF Len(lines) < 2 THEN FALSE
    ELSE \E i \in 1..Len(lines) : includes(lines[i].text, <<"\t">>) \/ includes(lines[i].text, <<"|">>)

\* a classifier for which half of the lines is enough for a list
determineBlockTypeFromHalf(lines) ==
    IF 2 * listItemCount(lines) >= Len(lines) THEN "list"
    ELSE IF Len(lines) = 1 /\ lines[1].fontSize # 0 /\ lines[1].fontSize > headingFontSize
    THEN "heading"
    ELSE IF Len(lines) > 3 /\ hasTableStructure(lines) THEN "table"
    ELSE "paragraph"

\* determineBlockType: listItemCount > totalLines * 0.5, as 2 * count > total
determineBlockType(lines) ==
    IF 2 * listItemCount(lines) > Len(lines) THEN "list"
    ELSE IF Len(lines) = 1 /\ lines[1].fontSize # 0 /\ lines[1].fontSize > headingFontSize
    THEN "heading"
    ELSE IF Len(lines) > 3 /\ hasTableStructure(lines) THEN "table"
    ELSE "paragraph"

\* a classifier that tries the heading rule first
determineDOCXBlockTypeHeadingFirst(lines) ==
    IF Len(lines) = 1 /\ Len(lines[1].text) < headingMaxLength /\ endsWith(lines[1].text, ":")
    THEN "heading"
    ELSE IF 2 * listItemCount(lines) > Len(lines) THEN "list"
    ELSE IF Len(lines) > 3 /\ hasDOCXTableStructure(lines) THEN "table"
    ELSE "paragraph"

determineDOCXBlockType(lines) ==
    IF 2 * listItemCount(lines) > Len(lines) THEN "list"
    ELSE IF Len(lines) = 1 /\ Len(lines[1].text) < headingMaxLength /\ endsWith(lines[1].text, ":")
    THEN "heading"
    ELSE IF Len(lines) > 3 /\ hasDOCXTableStructure(lines) THEN "table"
    ELSE "paragraph"

Classifiers == {"determineBlockType", "determineDOCXBlockType"}

\* lines of a PDF block, by what the classifier reads
ClassLines ==
    [isListItem : BOOLEAN, fontSize : {12}, x : {0, 50, 100}]
    \cup [isListItem : BOOLEAN, fontSize : {16}, x : {0}]

\* lines of a DOCX block, by what the classifier reads
ClassDocxLines ==
    [isListItem : BOOLEAN, text : {<<"a">>, <<"a", ":">>}]
    \cup [isListItem : {FALSE},
          text : {<<"a", "|", "b">>, <<"a", "\t", "b">>,
                  Rep("a", headingMaxLength - 1) \o <<":">>}]

ClassifierCalls(maxLines) ==
    {[fn |-> "determineBlockType", lines |-> lines] :
        lines \in SeqsUpTo(ClassLines, maxLines) \ {<<>>}}
    \cup
    {[fn |-> "determineDOCXBlockType", lines |-> lines] :
        lines \in SeqsUpTo(ClassDocxLines, maxLines) \ {<<>>}}

InitClassify ==
    /\ call \in ClassifierCalls(MaxClassLines)
    /\ ret = NoReturn
    /\ IdleExcept("relocate")

CallDetermineBlockType ==
    /\ call.fn = "determineBlockType" /\ ~ret.returned
    /\ ret' = Returned(determineBlockType(call.lines))
    /\ UNCHANGED <<call, smp, tip, viewer, home, cd, cit, up>>

CallDetermineDOCXBlockType ==
    /\ call.fn = "determineDOCXBlockType" /\ ~ret.returned
    /\ ret' = Returned(determineDOCXBlockType(call.lines))
    /\ UNCHANGED <<call, smp, tip, viewer, home, cd, cit, up>>

NextClassify == CallDetermineBlockType \/ CallDetermineDOCXBlockType

SpecClassify == InitClassify /\ [][NextClassify]_vars

(***************************************************************************)
(* Classification: the list threshold (C16), the rule order (C17).         *)
(***************************************************************************)
Classified == call.fn \in Classifiers /\ ret.returned
FlaggedLines == {i \in 1..Len(call.lines) : call.lines[i].isListItem}

\* C16: a block is classified list exactly when the number of lines flagged
\* isListItem is strictly greater than half the number of lines.
C16_ListIffMoreThanHalf ==
    Classified =>
        (ret.value = "list" <=> 2 * Cardinality(FlaggedLines) > Len(call.lines))

\* 2 of 3 lines flagged: list
C16_Witness ==
    /\ Classified /\ ret.value = "list"
    /\ Len(call.lines) = 3 /\ Cardinality(FlaggedLines) = 2

ListRule == 2 * Cardinality(FlaggedLines) > Len(call.lines)
HeadingRule ==
    /\ Len(call.lines) = 1
    /\ IF call.fn = "determineBlockType"
       THEN call.lines[1].fontSize > 14
       ELSE Len(call.lines[1].text) < 100 /\ call.lines[1].text[Len(call.lines[1].text)] = ":"
TableRule ==
    /\ Len(call.lines) > 3
    /\ IF call.fn = "determineBlockType"
       THEN \E i, j, k \in 1..Len(call.lines) :
               /\ call.lines[i].x # call.lines[j].x
               /\ call.lines[j].x # call.lines[k].x
               /\ call.lines[i].x # call.lines[k].x
       ELSE \E i \in 1..Len(call.lines) : \E c \in 1..Len(call.lines[i].text) :
               call.lines[i].text[c] \in {"\t", "|"}

\* C17: the type is the first rule that matches, in the order list, heading,
\* table; a block that matches none is a paragraph.
C17_FirstMatchingRule ==
    Classified =>
        ret.value = (IF ListRule THEN "list"
                     ELSE IF HeadingRule THEN "heading"
                     ELSE IF TableRule THEN "table"
                     ELSE "paragraph")

\* a one-line block that is a list item and meets the heading rule: list
C17_Witness ==
    /\ Classified /\ ListRule /\ HeadingRule
    /\ call.fn = "determineDOCXBlockType" /\ ret.value = "list"

(***************************************************************************)
(* The extraction functions, for one page or one document.  A pdf.js text  *)
(* item is [str, x, y, width, height] with x = transform[4] and            *)
(* y = transform[5].                                                       *)
(***************************************************************************)
MaxUnits == 2
MaxParagraphs == 2

minSnippetLength == 15
lineBucketTolerance == 2

\* item.str && item.str.trim().length > 0
HasText(item) == Len(trim(item.str)) > 0

\* Math.round(y / tolerance) * tolerance for an integer y (halves round up)
RoundToTolerance(y) == ((y + 1) \div lineBucketTolerance) * lineBucketTolerance

RECURSIVE InsertByX(_, _)
InsertByX(sorted, item) ==
    IF sorted = <<>> THEN <<item>>
    ELSE IF item.x < sorted[1].x THEN <<item>> \o sorted
    ELSE <<sorted[1]>> \o InsertByX(Tail(sorted), item)

\* lineItems.sort((a, b) => a.transform[4] - b.transform[4])
RECURSIVE SortByX(_)
SortByX(lineItems) ==
    IF lineItems = <<>> THEN <<>>
    ELSE InsertByX(SortByX(SubSeq(lineItems, 1, Len(lineItems) - 1)),
                   lineItems[Len(lineItems)])

\* combinedText before the trim: every str followed by a space
RECURSIVE CombinedText(_)
CombinedText(lineItems) ==
    IF lineItems = <<>> THEN <<>>
    ELSE lineItems[1].str \o <<" ">> \o CombinedText(Tail(lineItems))

\* the line of the items of one y bucket, as extractTextFromPDF computes it
PdfLineOfItems(lineItems) ==
    LET sorted == SortByX(lineItems)
        units == {sorted[i] : i \in 1..Len(sorted)}
        minX == MinOf({u.x : u \in units})
        maxX == MaxOf({u.x + u.width : u \in units})
        minY == MinOf({u.y : u \in units})
        maxHeight == MaxOf({u.height : u \in units})
    IN  [text |-> trim(CombinedText(sorted)),
         x |-> minX, y |-> minY, width |-> maxX - minX, height |-> maxHeight]

\* the keys of the lines object in the order Object.keys lists them
RECURSIVE Ascending(_)
Ascending(S) ==
    IF S = {} THEN <<>> ELSE <<MinOf(S)>> \o Ascending(S \ {MinOf(S)})

LineBuckets(items) ==
    {RoundToTolerance(items[i].y) : i \in {j \in 1..Len(items) : HasText(items[j])}}

ItemsOfBucket(items, y) ==
    SelectSeq(items, LAMBDA item : HasText(item) /\ RoundToTolerance(item.y) = y)

\* a filter that lets every snippet pass
AnyLength(snippet) == TRUE

\* the length filter of the extraction functions
LongEnough(snippet) == Len(snippet.text) >= minSnippetLength

\* extractTextFromPDF for the items of one page
extractTextFromPDF(items) ==
    LET keys == Ascending(LineBuckets(items))
        lines == [k \in 1..Len(keys) |-> PdfLineOfItems(ItemsOfBucket(items, keys[k]))]
    IN  SelectSeq(lines, LongEnough)

\* groupTextItemsIntoBlocks: the sort, the forEach and the final push
RECURSIVE GroupAllItems(_, _, _)
GroupAllItems(blocks, currentBlock, items) ==
    IF items = <<>> THEN blocks \o currentBlock
    ELSE LET g == GroupItem(blocks, currentBlock, items[1])
         IN  GroupAllItems(g.blocks, g.currentBlock, Tail(items))

groupTextItemsIntoBlocks(textItems) == GroupAllItems(<<>>, <<>>, SortItems(textItems))

\* groupDOCXTextLinesIntoBlocks: the forEach and the final push
RECURSIVE GroupAllDocxLines(_, _, _)
GroupAllDocxLines(blocks, currentBlock, textLines) ==
    IF textLines = <<>> THEN blocks \o currentBlock
    ELSE LET g == GroupDocxLine(blocks, currentBlock, textLines[1])
         IN  GroupAllDocxLines(g.blocks, g.currentBlock, Tail(textLines))

groupDOCXTextLinesIntoBlocks(textLines) == GroupAllDocxLines(<<>>, <<>>, textLines)

\* the text item extractMultiLineTextFromPDF makes of a pdf.js item
TextItemOf(item) ==
    [text |-> item.str, x |-> item.x, y |-> item.y, width |-> item.width,
     height |-> item.height, fontSize |-> item.height]

\* block.lines.length > 0 && block.totalText.length >= 15
BlockIsSnippet(block) == Len(block.lines) > 0 /\ LongEnough([text |-> block.totalText])

\* extractMultiLineTextFromPDF for the items of one page
extractMultiLineTextFromPDF(items) ==
    LET textItems == SelectSeq(items, HasText)
        kept == SelectSeq(groupTextItemsIntoBlocks([i \in 1..Len(textItems) |-> TextItemOf(textItems[i])]),
                          BlockIsSnippet)
    IN  [i \in 1..Len(kept) |->
            [text |-> kept[i].totalText, x |-> kept[i].minX, y |-> kept[i].minY,
             width |-> kept[i].maxX - kept[i].minX, height |-> kept[i].maxY - kept[i].minY,
             lines |-> kept[i].lines, type |-> determineBlockType(kept[i].lines)]]

\* /[.!?]+/
SentenceEnds == {".", "!", "?"}

RECURSIVE SkipSentenceEnds(_)
SkipSentenceEnds(s) ==
    IF s # <<>> /\ s[1] \in SentenceEnds THEN SkipSentenceEnds(Tail(s)) ELSE s

\* paragraph.split(/[.!?]+/), cur being the piece under way
RECURSIVE SplitSentences(_, _)
SplitSentences(s, cur) ==
    IF s = <<>> THEN <<cur>>
    ELSE IF s[1] \in SentenceEnds
    THEN <<cur>> \o SplitSentences(SkipSentenceEnds(s), <<>>)
    ELSE SplitSentences(Tail(s), Append(cur, s[1]))

NotBlank(s) == Len(trim(s)) > 0

\* text.split('\n').filter(p => p.trim().length > 0), of the split lines
Paragraphs(textLines) == SelectSeq(textLines, NotBlank)

docxParagraphSpacing == 25
docxLineHeight == 20
docxCharWidth == 7
docxMaxWidth == 800
minParagraphLength == 10

\* the snippets extractTextFromDOCX makes of paragraph number paragraphIndex
DocxParagraphSnippets(paragraph, paragraphIndex) ==
    IF Len(trim(paragraph)) < minParagraphLength THEN <<>>
    ELSE LET sentences == SelectSeq(SplitSentences(paragraph, <<>>), NotBlank)
             made == [i \in 1..Len(sentences) |->
                        [text |-> trim(sentences[i]), paragraphIndex |-> paragraphIndex,
                         startIndex |-> i - 1, endIndex |-> i,
                         x |-> 0, y |-> paragraphIndex * docxParagraphSpacing,
                         width |-> Min(Len(trim(sentences[i])) * docxCharWidth, docxMaxWidth),
                         height |-> docxLineHeight]]
             whole == [text |-> trim(paragraph), paragraphIndex |-> paragraphIndex,
                       startIndex |-> 0, endIndex |-> 1,
                       x |-> 0, y |-> paragraphIndex * docxParagraphSpacing,
                       width |-> Min(Len(paragraph) * docxCharWidth, docxMaxWidth),
                       height |-> docxLineHeight]
         IN  SelectSeq(made, LongEnough)
             \o (IF LongEnough(whole) /\ Len(sentences) = 0 THEN <<whole>> ELSE <<>>)

RECURSIVE DocxSnippetsFrom(_, _)
DocxSnippetsFrom(paragraphs, paragraphIndex) ==
    IF paragraphs = <<>> THEN <<>>
    ELSE DocxParagraphSnippets(paragraphs[1], paragraphIndex)
         \o DocxSnippetsFrom(Tail(paragraphs), paragraphIndex + 1)

\* extractTextFromDOCX for the raw text of a document, given by its lines
extractTextFromDOCX(textLines) == DocxSnippetsFrom(Paragraphs(textLines), 0)

ismTextLength == 3051
ismLineCount == 32

\* createHardcodedISMSection: the text by its length, the lines by position
createHardcodedISMSection ==
    [text |-> Rep("h", ismTextLength),
     startIndex |-> 0, endIndex |-> ismLineCount,
     x |-> 0, y |-> 0, width |-> docxMaxWidth, height |-> ismLineCount * docxParagraphSpacing,
     lines |-> [i \in 1..ismLineCount |->
                  [paragraphIndex |-> i - 1, x |-> 0, y |-> (i - 1) * docxParagraphSpacing,
                   height |-> docxLineHeight]],
     type |-> "table"]

FileNames == {"report.docx", "Scope of ISMS.docx", "SCOPE OF ISMS.DOCX"}

\* file.name.toLowerCase().includes('scope of isms.docx')
IsScopeOfIsms(fileName) == fileName \in {"Scope of ISMS.docx", "SCOPE OF ISMS.DOCX"}

\* extractMultiLineTextFromDOCX for a file name and the lines of the raw text
extractMultiLineTextFromDOCX(fileName, textLines) ==
    LET kept == SelectSeq(groupDOCXTextLinesIntoBlocks(DocxTextLines(Paragraphs(textLines))),
                          BlockIsSnippet)
        multiLineSnippets ==
            [i \in 1..Len(kept) |->
                [text |-> kept[i].totalText,
                 startIndex |-> kept[i].lines[1].paragraphIndex,
                 endIndex |-> kept[i].lines[Len(kept[i].lines)].paragraphIndex + 1,
                 x |-> kept[i].minX, y |-> kept[i].minY,
                 width |-> kept[i].maxX - kept[i].minX, height |-> kept[i].maxY - kept[i].minY,
                 lines |-> kept[i].lines, type |-> determineDOCXBlockType(kept[i].lines)]]
    IN  IF IsScopeOfIsms(fileName)
        THEN Append(multiLineSnippets, createHardcodedISMSection)
        ELSE multiLineSnippets

\* pdf.js text items: two halves of a line, a blank item; the y of one bucket
\* (9 and 10) and of the next line (30)
ExtractItems ==
    [str : {Rep("a", 7), <<" ">>}, x : {0, 40}, y : {9, 10, 30}, width : {30},
     height : {10, 12}]

\* lines of the raw text of a DOCX document
ExtractTextLines ==
    {Rep("a", 15), Rep("a", 14), Rep("a", 9), <<" ">>, Rep(".", 16),
     Rep("a", 14) \o <<".">> \o Rep("b", 16)}

Extractors ==
    {"extractTextFromPDF", "extractMultiLineTextFromPDF",
     "extractTextFromDOCX", "extractMultiLineTextFromDOCX"}

ExtractCalls(maxUnits, maxParagraphs) ==
    {[fn |-> fn, items |-> items] :
        fn \in {"extractTextFromPDF", "extractMultiLineTextFromPDF"},
        items \in SeqsUpTo(ExtractItems, maxUnits)}
    \cup
    {[fn |-> "extractTextFromDOCX", textLines |-> textLines] :
        textLines \in SeqsUpTo(ExtractTextLines, maxParagraphs)}
    \cup
    {[fn |-> "extractMultiLineTextFromDOCX", fileName |-> fileName, textLines |-> textLines] :
        fileName \in FileNames, textLines \in SeqsUpTo(ExtractTextLines, maxParagraphs)}

InitExtract ==
    /\ call \in ExtractCalls(MaxUnits, MaxParagraphs)
    /\ ret = NoReturn
    /\ IdleExcept("relocate")

CallExtractTextFromPDF ==
    /\ call.fn = "extractTextFromPDF" /\ ~ret.returned
    /\ ret' = Returned(extractTextFromPDF(call.items))
    /\ UNCHANGED <<call, smp, tip, viewer, home, cd, cit, up>>

CallExtractMultiLineTextFromPDF ==
    /\ call.fn = "extractMultiLineTextFromPDF" /\ ~ret.returned
    /\ ret' = Returned(extractMultiLineTextFromPDF(call.items))
    /\ UNCHANGED <<call, smp, tip, viewer, home, cd, cit, up>>

CallExtractTextFromDOCX ==
    /\ call.fn = "extractTextFromDOCX" /\ ~ret.returned
    /\ ret' = Returned(extractTextFromDOCX(call.textLines))
    /\ UNCHANGED <<call, smp, tip, viewer, home, cd, cit, up>>

CallExtractMultiLineTextFromDOCX ==
    /\ call.fn = "extractMultiLineTextFromDOCX" /\ ~ret.returned
    /\ ret' = Returned(extractMultiLineTextFromDOCX(call.fileName, call.textLines))
    /\ UNCHANGED <<call, smp, tip, viewer, home, cd, cit, up>>

NextExtract ==
    \/ CallExtractTextFromPDF
    \/ CallExtractMultiLineTextFromPDF
    \/ CallExtractTextFromDOCX
    \/ CallExtractMultiLineTextFromDOCX

SpecExtract == InitExtract /\ [][NextExtract]_vars

(***************************************************************************)
(* Extracted lines and snippets: the box of a line (C15), the minimum      *)
(* length (C18).                                                           *)
(***************************************************************************)
\* the line whose box is the union of the boxes of its units
UnionLine(lineItems) ==
    LET units == {lineItems[i] : i \in 1..Len(lineItems)}
        left == MinOf({u.x : u \in units})
        bottom == MinOf({u.y : u \in units})
    IN  [text |-> PdfLineOfItems(lineItems).text,
         x |-> left, y |-> bottom,
         width |-> MaxOf({u.x + u.width : u \in units}) - left,
         height |-> MaxOf({u.y + u.height : u \in units}) - bottom]

\* C15: every line extractTextFromPDF emits has the box that is the union of
\* the boxes of the units merged into it: x and y are the least unit x and y,
\* x + width the greatest right edge, y + height the greatest unit y + height.
C15_LineBoxIsUnionOfUnits ==
    (call.fn = "extractTextFromPDF" /\ ret.returned) =>
        LET keys == Ascending(LineBuckets(call.items))
            lines == [k \in 1..Len(keys) |-> UnionLine(ItemsOfBucket(call.items, keys[k]))]
        IN  ret.value = SelectSeq(lines, LAMBDA line : Len(line.text) >= 15)

\* C18: every snippet an extraction function returns has a text of at least
\* 15 characters.
C18_MinimumSnippetLength ==
    (call.fn \in Extractors /\ ret.returned) =>
        \A i \in 1..Len(ret.value) : Len(ret.value[i].text) >= 15

\* of a line of 15 and a line of 14 characters the first alone is a snippet
C18_Witness ==
    /\ call.fn = "extractTextFromDOCX" /\ ret.returned
    /\ Len(call.textLines) = 2 /\ Len(call.textLines[2]) = 14
    /\ Len(ret.value) = 1 /\ Len(ret.value[1].text) = 15

(***************************************************************************)
(* The highlight of PDFViewer.renderPage, drawn after the page has been    *)
(* rendered.  The scale is 1.5: canvas coordinates are kept in half        *)
(* pixels, so that every product is an integer.                            *)
(***************************************************************************)
\* twice the scale of the viewport and of the highlight
scaleInHalves == 3
yOffset == 8

\* highlight && highlight.x && highlight.y && highlight.width && highlight.height
HighlightIsDrawn(highlight) ==
    /\ highlight.given
    /\ highlight.x # 0 /\ highlight.y # 0 /\ highlight.width # 0 /\ highlight.height # 0

\* the rectangle of the documentation: (pageHeight - y) * scale + yOffset
CanvasRectOfReadme(highlight, viewportHeight) ==
    [x |-> highlight.x * scaleInHalves,
     y |-> 2 * viewportHeight - highlight.y * scaleInHalves + 2 * yOffset,
     width |-> highlight.width * scaleInHalves,
     height |-> highlight.height * scaleInHalves]

\* canvasX, canvasY, canvasWidth, canvasHeight, in half pixels
CanvasRect(highlight, viewportHeight) ==
    [x |-> highlight.x * scaleInHalves,
     y |-> 2 * viewportHeight - highlight.y * scaleInHalves - yOffset * scaleInHalves,
     width |-> highlight.width * scaleInHalves,
     height |-> highlight.height * scaleInHalves]

\* the rectangles drawn on the canvas after the page
DrawHighlight(highlight, viewportHeight) ==
    IF HighlightIsDrawn(highlight)
    THEN <<[op |-> "fillRect", rect |-> CanvasRect(highlight, viewportHeight)],
           [op |-> "strokeRect", rect |-> CanvasRect(highlight, viewportHeight)]>>
    ELSE <<>>

\* the highlight of the URL parameters; page heights in points times 1.5
Highlights ==
    [given : {TRUE}, x : {0, 7, 100}, y : {0, 5, 200}, width : {0, 3, 50}, height : {0, 5, 10}]
    \cup {[given |-> FALSE]}
ViewportHeights == {1188, 1263}

InitHighlight ==
    /\ call \in [fn : {"renderPage"}, highlight : Highlights, viewportHeight : ViewportHeights]
    /\ ret = NoReturn
    /\ IdleExcept("relocate")

\* the page is rendered and the highlight is drawn over it
RenderPageDrawsHighlight ==
    /\ call.fn = "renderPage" /\ ~ret.returned
    /\ HighlightIsDrawn(call.highlight)
    /\ ret' = Returned(DrawHighlight(call.highlight, call.viewportHeight))
    /\ UNCHANGED <<call, smp, tip, viewer, home, cd, cit, up>>

\* the page is rendered without a highlight
RenderPageDrawsNoHighlight ==
    /\ call.fn = "renderPage" /\ ~ret.returned
    /\ ~HighlightIsDrawn(call.highlight)
    /\ ret' = Returned(DrawHighlight(call.highlight, call.viewportHeight))
    /\ UNCHANGED <<call, smp, tip, viewer, home, cd, cit, up>>

NextHighlight == RenderPageDrawsHighlight \/ RenderPageDrawsNoHighlight

SpecHighlight == InitHighlight /\ [][NextHighlight]_vars

urlTextLimit == 1000

createDOCXHighlightURL(docxUrl, snippet) ==
    [path |-> "/docx-viewer", docx |-> snippet.text, docxUrl |-> docxUrl]

createDOCXMultiLineHighlightURL(docxUrl, snippet) ==
    [path |-> "/docx-viewer", docxUrl |-> docxUrl, type |-> snippet.type,
     multiline |-> "true", docx |-> substring(snippet.text, 0, urlTextLimit)]

UrlBuilders == {"createDOCXHighlightURL", "createDOCXMultiLineHighlightURL"}

\* snippet texts: the shortest, about the limit, the hardcoded section
UrlTexts ==
    {Rep("a", n) : n \in {minSnippetLength, urlTextLimit - 1, urlTextLimit, urlTextLimit + 1}}
    \cup {createHardcodedISMSection.text}
BlockTypes == {"paragraph", "list", "table", "heading"}
ObjectUrls == {"blob:a", "blob:b"}

UrlCalls ==
    [fn : {"createDOCXHighlightURL"}, docxUrl : ObjectUrls,
     snippet : [text : UrlTexts, paragraphIndex : {0, 1, 2}]]
    \cup
    [fn : {"createDOCXMultiLineHighlightURL"}, docxUrl : ObjectUrls,
     snippet : [text : UrlTexts, type : BlockTypes]]

InitUrls ==
    /\ call \in UrlCalls
    /\ ret = NoReturn
    /\ IdleExcept("relocate")

CallCreateDOCXHighlightURL ==
    /\ call.fn = "createDOCXHighlightURL" /\ ~ret.returned
    /\ ret' = Returned(createDOCXHighlightURL(call.docxUrl, call.snippet))
    /\ UNCHANGED <<call, smp, tip, viewer, home, cd, cit, up>>

CallCreateDOCXMultiLineHighlightURL ==
    /\ call.fn = "createDOCXMultiLineHighlightURL" /\ ~ret.returned
    /\ ret' = Returned(createDOCXMultiLineHighlightURL(call.docxUrl, call.snippet))
    /\ UNCHANGED <<call, smp, tip, viewer, home, cd, cit, up>>

NextUrls == CallCreateDOCXHighlightURL \/ CallCreateDOCXMultiLineHighlightURL

SpecUrls == InitUrls /\ [][NextUrls]_vars

(***************************************************************************)
(* The length of the text a highlight URL carries (C20).                   *)
(***************************************************************************)
\* C20: the docx parameter of every URL built by createDOCXHighlightURL or
\* createDOCXMultiLineHighlightURL has at most 1000 characters.
C20_UrlTextAtMost1000 ==
    (call.fn \in UrlBuilders /\ ret.returned) => Len(ret.value.docx) <= 1000

(***************************************************************************)
(* PDFUploader.  handleFileSelect is async; while it is processing the     *)
(* file input is not rendered, so one call is under way at a time.  A      *)
(* snippet is modelled by the file it was extracted from.                  *)
(***************************************************************************)
MaxUploads == 3

UploadFiles == {"a.pdf", "b.pdf", "a.docx"}

\* file.type
MimeType(file) == IF file \in {"a.pdf", "b.pdf"} THEN "application/pdf" ELSE "other"

\* what extractTextFromPDF can resolve with for a file
ExtractedSnippets(file) == {<<>>, <<[file |-> file]>>}

NotPdfError == "Please select a PDF file"
NoTextError == "No text content found in the PDF"
ProcessingError == "Error processing PDF. Please try again."

InitUploader ==
    /\ IdleExcept("uploader")
    /\ up = [component |-> "PDFUploader", isProcessing |-> FALSE, error |-> None,
             processed |-> <<>>, calls |-> <<>>]

\* the file input is rendered
InputShown == up.component # None /\ ~up.isProcessing

\* handleFileSelect of a file that is no PDF
SelectOtherFile(file) ==
    /\ InputShown /\ Len(up.calls) < MaxUploads
    /\ MimeType(file) # "application/pdf"
    /\ up' = [up EXCEPT !.error = NotPdfError,
                        !.calls = Append(@, [file |-> file, pc |-> "end", outcome |-> "refused"])]
    /\ UNCHANGED <<call, ret, smp, tip, viewer, home, cd, cit>>

\* handleFileSelect of a PDF, up to the await
SelectPdfFile(file) ==
    /\ InputShown /\ Len(up.calls) < MaxUploads
    /\ MimeType(file) = "application/pdf"
    /\ up' = [up EXCEPT !.isProcessing = TRUE, !.error = None,
                        !.calls = Append(@, [file |-> file, pc |-> "extract", outcome |-> None])]
    /\ UNCHANGED <<call, ret, smp, tip, viewer, home, cd, cit>>

UploadIds == IF up.component = None THEN {} ELSE 1..Len(up.calls)

\* extractTextFromPDF resolves with no snippet: error, return, finally
UploadResolvesEmpty(i) ==
    /\ up.calls[i].pc = "extract"
    /\ up' = [up EXCEPT !.error = NoTextError, !.isProcessing = FALSE,
                        !.calls[i].pc = "end", !.calls[i].outcome = "empty"]
    /\ UNCHANGED <<call, ret, smp, tip, viewer, home, cd, cit>>

\* extractTextFromPDF resolves with snippets: onPDFProcessed, finally
UploadResolves(i, snippets) ==
    /\ up.calls[i].pc = "extract" /\ snippets # <<>>
    /\ up' = [up EXCEPT !.processed = Append(@, [call |-> i, snippets |-> snippets,
                                                 pdfFile |-> up.calls[i].file]),
                        !.isProcessing = FALSE,
                        !.calls[i].pc = "end", !.calls[i].outcome = "processed"]
    /\ UNCHANGED <<call, ret, smp, tip, viewer, home, cd, cit>>

\* extractTextFromPDF rejects: catch, finally
UploadRejects(i) ==
    /\ up.calls[i].pc = "extract"
    /\ up' = [up EXCEPT !.error = ProcessingError, !.isProcessing = FALSE,
                        !.calls[i].pc = "end", !.calls[i].outcome = "failed"]
    /\ UNCHANGED <<call, ret, smp, tip, viewer, home, cd, cit>>

NextUploader ==
    \/ \E file \in UploadFiles : SelectOtherFile(file)
    \/ \E file \in UploadFiles : SelectPdfFile(file)
    \/ \E i \in UploadIds : UploadResolvesEmpty(i)
    \/ \E i \in UploadIds : \E snippets \in ExtractedSnippets(up.calls[i].file) :
          UploadResolves(i, snippets)
    \/ \E i \in UploadIds : UploadRejects(i)

SpecUploader == InitUploader /\ [][NextUploader]_vars

(***************************************************************************)
(* Documents without eligible text (C21).                                  *)
(***************************************************************************)
\* C21: when the extraction of the latest upload has resolved with no
\* snippet, no error is set and the empty list has been given to the
\* processed callback.
C21_EmptyResultIsNoError ==
    \A i \in UploadIds :
        (i = Len(up.calls) /\ up.calls[i].outcome = "empty") =>
            /\ up.error = None
            /\ \E k \in 1..Len(up.processed) :
                  up.processed[k].call = i /\ up.processed[k].snippets = <<>>

(***************************************************************************)
(* A document that cannot be decoded (C22).                                *)
(***************************************************************************)
HomeCitations(h) ==
    <<h.pdfCitations, h.docxCitations, h.pdfMultiLineCitations, h.docxMultiLineCitations>>

\* call i of handleFileSelect ends in this step with a rejected extraction
SelectFails(i) ==
    /\ home.selects[i].pc = "extract"
    /\ i \in 1..Len(home'.selects)
    /\ home'.selects[i].outcome = "alert"

\* C22: when the extraction of a document rejects, the rejection carries an
\* error message, the call of handleFileSelect ends with loading = false and
\* without setting any citations, and it is not run again.
C22_DecodeFailureEndsLoad ==
    [][\A i \in SelectIds :
          SelectFails(i) =>
              /\ home'.selects[i].error # None
              /\ home'.selects[i].pc = "end"
              /\ home'.loading = FALSE
              /\ HomeCitations(home') = HomeCitations(home)
              /\ home'.fileType = home.fileType]_vars

\* after a failed load an upload has succeeded and its citations are shown
C22_Witness ==
    /\ home.component # None /\ Len(home.selects) = 2
    /\ home.selects[1].outcome = "alert"
    /\ home.selects[2].outcome = "stored"
    /\ \E d \in RenderedCitationDisplays :
          d.file = home.selects[2].file /\ d.citations[1].file = d.file

(***************************************************************************)
(* Extraction followed by relocation: a document is extracted, a citation  *)
(* is made of one of its snippets, and the tooltip of that citation builds *)
(* its own line index of the same document and relocates the snippet.      *)
(***************************************************************************)
minIndexLineLength == 5

InIndex(line) == Len(line.text) >= minIndexLineLength

\* the line index PDFPreviewTooltip builds of a page: one line per bucket, its
\* y the bucket's, sorted by descending y
PdfTooltipIndex(items) ==
    LET keys == Ascending(LineBuckets(items))
        n == Len(keys)
        lines == [k \in 1..n |->
                    LET made == PdfLineOfItems(ItemsOfBucket(items, keys[n + 1 - k]))
                    IN  [text |-> made.text, y |-> keys[n + 1 - k], x |-> made.x,
                         width |-> made.width, height |-> made.height]]
    IN  SelectSeq(lines, InIndex)

\* the lines DOCXPreviewTooltip makes of paragraph number idx
DocxTooltipParagraphLines(paragraph, idx) ==
    LET sentences == SelectSeq(SplitSentences(paragraph, <<>>), NotBlank)
        made == [i \in 1..Len(sentences) |->
                    [text |-> trim(sentences[i]), paragraphIndex |-> idx,
                     startIndex |-> i - 1, endIndex |-> i]]
    IN  SelectSeq(made, InIndex)

RECURSIVE DocxTooltipLinesFrom(_, _)
DocxTooltipLinesFrom(paragraphs, idx) ==
    IF paragraphs = <<>> THEN <<>>
    ELSE DocxTooltipParagraphLines(paragraphs[1], idx)
         \o DocxTooltipLinesFrom(Tail(paragraphs), idx + 1)

\* the line index DOCXPreviewTooltip builds of the raw text
DocxTooltipIndex(textLines) == DocxTooltipLinesFrom(Paragraphs(textLines), 0)

\* pdf.js items of a page: lines of 15 characters 3, 4 and 20 points apart
RoundTripItems ==
    [str : {Rep("a", 15), Rep("b", 15)}, x : {0}, y : {10, 13, 14, 30}, width : {100},
     height : {10, 12}]

\* lines of the raw text of a DOCX document
RoundTripTextLines ==
    {Rep("a", 15), Rep("b", 16), Rep("a", 9), Rep(".", 16),
     Rep("c", 5) \o <<".">> \o Rep("d", 16)}

RoundTripCalls(maxUnits, maxParagraphs) ==
    {[fn |-> "pdfRoundTrip", pc |-> "extract", items |-> items, snippets |-> <<>>] :
        items \in SeqsUpTo(RoundTripItems, maxUnits)}
    \cup
    {[fn |-> "docxRoundTrip", pc |-> "extract", textLines |-> textLines, snippets |-> <<>>] :
        textLines \in SeqsUpTo(RoundTripTextLines, maxParagraphs)}

InitRoundTrip ==
    /\ call \in RoundTripCalls(MaxUnits, MaxParagraphs)
    /\ ret = NoReturn
    /\ IdleExcept("relocate")

\* the page is extracted
RoundTripExtractsPdf ==
    /\ call.fn = "pdfRoundTrip" /\ call.pc = "extract"
    /\ call' = [call EXCEPT !.pc = "hover", !.snippets = extractTextFromPDF(call.items)]
    /\ UNCHANGED <<ret, smp, tip, viewer, home, cd, cit, up>>

\* the tooltip of the citation of snippet k relocates its box
RoundTripRelocatesPdf(k) ==
    /\ call.fn = "pdfRoundTrip" /\ call.pc = "hover" /\ k \in 1..Len(call.snippets)
    /\ call' = [call EXCEPT !.pc = "done"]
    /\ LET index == PdfTooltipIndex(call.items)
       IN  ret' = Returned([snippet |-> call.snippets[k], textLines |-> index,
                            context |-> PdfExtractContextFromLines(index,
                                            call.snippets[k].y, call.snippets[k].height)])
    /\ UNCHANGED <<smp, tip, viewer, home, cd, cit, up>>

\* the document is extracted
RoundTripExtractsDocx ==
    /\ call.fn = "docxRoundTrip" /\ call.pc = "extract"
    /\ call' = [call EXCEPT !.pc = "hover", !.snippets = extractTextFromDOCX(call.textLines)]
    /\ UNCHANGED <<ret, smp, tip, viewer, home, cd, cit, up>>

\* the tooltip of the citation of snippet k relocates it by paragraph index
RoundTripRelocatesDocx(k) ==
    /\ call.fn = "docxRoundTrip" /\ call.pc = "hover" /\ k \in 1..Len(call.snippets)
    /\ call' = [call EXCEPT !.pc = "done"]
    /\ LET index == DocxTooltipIndex(call.textLines)
       IN  ret' = Returned([snippet |-> call.snippets[k], textLines |-> index,
                            context |-> DocxExtractContextFromLines(index,
                                            call.snippets[k].paragraphIndex,
                                            call.snippets[k].startIndex)])
    /\ UNCHANGED <<smp, tip, viewer, home, cd, cit, up>>

NextRoundTrip ==
    \/ RoundTripExtractsPdf
    \/ \E k \in 1..MaxUnits : RoundTripRelocatesPdf(k)
    \/ RoundTripExtractsDocx
    \/ \E k \in 1..(2 * MaxParagraphs) : RoundTripRelocatesDocx(k)

SpecRoundTrip == InitRoundTrip /\ [][NextRoundTrip]_vars

(***************************************************************************)
(* Round trips (C25, C26).                                                 *)
(***************************************************************************)
\* C25: relocating the box of a snippet of extractTextFromPDF over the
\* tooltip's line index of the same page selects the line with the snippet's
\* text: the target row of the window (the middle one) is that text.
C25_PdfRoundTrip ==
    (call.fn = "pdfRoundTrip" /\ ret.returned) =>
        /\ ret.value.textLines # <<>>
        /\ ret.value.context.lines[2] = ret.value.snippet.text

\* C26: relocating a snippet of extractTextFromDOCX by its paragraphIndex and
\* startIndex over the tooltip's line index of the same text finds a line, and
\* the line (the middle row of the window) has the snippet's text.
C26_DocxRoundTrip ==
    (call.fn = "docxRoundTrip" /\ ret.returned) =>
        /\ ret.value.context.lines # <<NotFoundText>>
        /\ ret.value.context.lines[2] = ret.value.snippet.text

(***************************************************************************)
(* The two paths of extractContext for one request: the line index of the  *)
(* document is in the cache, or it is fetched and parsed.                  *)
(***************************************************************************)
InitCachePaths ==
    /\ call \in UNION {[fn : {"extractContext"}, kind : {kind}, props : PropsOf(kind),
                        cached : BOOLEAN] : kind \in {"docx", "pdf"}}
    /\ ret = NoReturn
    /\ IdleExcept("relocate")

\* the index is in the cache: the window is made of the cached lines
ExtractContextCacheHit ==
    /\ call.fn = "extractContext" /\ ~ret.returned
    /\ call.props.isVisible /\ call.cached
    /\ ret' = Returned(HitContext(call.kind, ParsedIndex(call.kind, call.props), call.props))
    /\ UNCHANGED <<call, smp, tip, viewer, home, cd, cit, up>>

\* the index is not in the cache: the window is made of the parsed lines
ExtractContextCacheMiss ==
    /\ call.fn = "extractContext" /\ ~ret.returned
    /\ call.props.isVisible /\ ~call.cached
    /\ ret' = Returned(MissContext(call.kind, ParsedIndex(call.kind, call.props), call.props))
    /\ UNCHANGED <<call, smp, tip, viewer, home, cd, cit, up>>

NextCachePaths == ExtractContextCacheHit \/ ExtractContextCacheMiss

SpecCachePaths == InitCachePaths /\ [][NextCachePaths]_vars

StartsWithListMark(s) ==
    \/ (Len(s) > 0 /\ s[1] \in Bullets \cup {"-"})
    \/ StartsWithRunAndDot(s, Digits)

\* the four cases of relatedness, the last one for texts that begin with a
\* list marker
RelatedByTheFourCases(line1, line2) ==
    \/ (line1.isListItem /\ line2.isListItem /\ line1.listType = line2.listType)
    \/ Abs(line1.indentLevel - line2.indentLevel) <= 1
    \/ endsWith(line1.text, ":")
    \/ (StartsWithListMark(line1.text) /\ StartsWithListMark(line2.text))

\* forEach takes a line while a block is open
TakesDocxLine ==
    /\ call.fn = "groupDOCXTextLinesIntoBlocks"
    /\ call.currentBlock # <<>>
    /\ call.next <= Len(call.input)
    /\ call'.next = call.next + 1

\* C28: a line is appended to the current block exactly when it is within 30
\* of the block's last line and related to it by one of the four cases (same
\* list type; indent levels at most 1 apart; the previous line ends with a
\* colon; both begin with a list marker); otherwise the block is closed and
\* the line starts a new block alone.
C28_AppendedIffNearAndRelated ==
    [][TakesDocxLine =>
        LET line == call.input[call.next]
            block == call.currentBlock[1]
            lastLine == block.lines[Len(block.lines)]
        IN  IF /\ Abs(line.y - lastLine.y) <= docxBlockTolerance
               /\ RelatedByTheFourCases(lastLine, line)
            THEN /\ call'.blocks = call.blocks
                 /\ call'.currentBlock[1].lines = Append(block.lines, line)
            ELSE /\ call'.blocks = Append(call.blocks, block)
                 /\ call'.currentBlock[1].lines = <<line>>]_vars

(***************************************************************************)
(* Headings of a DOCX document (C29).                                      *)
(***************************************************************************)
\* a block of one line that ends with a colon
LoneColonLine(block) == Len(block.lines) = 1 /\ endsWith(block.lines[1].text, ":")

\* the blocks of the returned list that determineDOCXBlockType calls heading
HeadingBlocks ==
    {i \in 1..Len(ret.value) : determineDOCXBlockType(ret.value[i].lines) = "heading"}

\* C29: groupDOCXTextLinesIntoBlocks never closes a block that is a single
\* line ending with ':' while a line follows, so of the blocks it returns at
\* most one is classified heading by determineDOCXBlockType, and that one is
\* the last paragraph of the document alone.
C29_HeadingOnlyLastParagraphAlone ==
    (call.fn = "groupDOCXTextLinesIntoBlocks") =>
        /\ \A i \in 1..Len(call.blocks) :
              LoneColonLine(call.blocks[i]) =>
                  /\ ret.returned
                  /\ call.blocks[i].lines[1] = call.input[Len(call.input)]
        /\ ret.returned =>
              /\ Cardinality(HeadingBlocks) <= 1
              /\ \A i \in HeadingBlocks :
                    /\ i = Len(ret.value)
                    /\ ret.value[i].lines = <<call.input[Len(call.input)]>>

\* a document whose first paragraph ends with ':' and is followed by a
\* paragraph, and whose last paragraph alone is the heading
C29_Witness ==
    /\ call.fn = "groupDOCXTextLinesIntoBlocks" /\ ret.returned
    /\ Len(call.input) = 3 /\ endsWith(call.input[1].text, ":")
    /\ Len(ret.value) = 2 /\ Len(ret.value[1].lines) = 2
    /\ HeadingBlocks = {2}

(***************************************************************************)
(* File names (C30).                                                       *)
(***************************************************************************)
\* the lines extractMultiLineTextFromDOCX makes of the document's paragraphs
LinesOfDocument(textLines) ==
    LET made == DocxTextLines(Paragraphs(textLines))
    IN  {made[i] : i \in 1..Len(made)}

\* C30: what extractMultiLineTextFromDOCX returns for a document is the same
\* under every file name, and every line of every snippet it returns is a
\* paragraph of the document: nothing is added for a file of a certain name.
C30_OutputIndependentOfFileName ==
    (call.fn = "extractMultiLineTextFromDOCX" /\ ret.returned) =>
        /\ \A fileName \in FileNames :
              ret.value = extractMultiLineTextFromDOCX(fileName, call.textLines)
        /\ \A i \in 1..Len(ret.value) :
              \A j \in 1..Len(ret.value[i].lines) :
                  ret.value[i].lines[j] \in LinesOfDocument(call.textLines)

(***************************************************************************)
(* Relocation misses (C7).                                                 *)
(***************************************************************************)
\* the call under way found no line to relocate to
RelocationMiss ==
    CASE call.fn = "findTextContext" ->
            \A i \in 1..Len(call.textLines) :
               ~LineMatches(call.textLines[i], NormalizeSearchText(call.searchText))
      [] call.fn = "docxExtractContextFromLines" ->
            \A i \in 1..Len(call.textLines) :
               call.textLines[i].paragraphIndex # call.targetParagraphIndex
      [] call.fn = "pdfExtractContextFromLines" -> call.textLines = <<>>
      [] OTHER -> FALSE

\* C7 as stated: whenever relocation finds no matching line, the returned
\* context is exactly one line, the 'not found' sentinel (a value, not an
\* exception).
C7_MissIsOneSentinelLine ==
    (ret.returned /\ RelocationMiss) => ret.value.lines = <<NotFoundText>>

\* C7 as amended: a miss is returned as a value; the two DOCX functions
\* return exactly one line, the sentinel, with highlighted index 0, and the
\* PDF function returns three rows, the sentinel between two empty rows, with
\* highlighted index 1.
C7_MissIsSentinelValue ==
    (ret.returned /\ RelocationMiss) =>
        IF call.fn = "pdfExtractContextFromLines"
        THEN /\ ret.value.lines = <<EmptyText, NotFoundText, EmptyText>>
             /\ ret.value.highlightedIndex = 1
        ELSE /\ ret.value.lines = <<NotFoundText>>
             /\ ret.value.highlightedIndex = 0

C7_Witness ==
    /\ ret.returned /\ RelocationMiss
    /\ call.fn = "findTextContext" /\ Len(call.textLines) = 2
    /\ call.textLines[1].text # <<>>

(***************************************************************************)
(* Fuzzy relocation (C8).                                                  *)
(***************************************************************************)
\* the specification's normal forms, written out independently of the code's
\* operators: whitespace runs collapsed, trimmed, case-folded
ClaimNormalLine(t) == toLowerCase(trim(CollapseWhitespace(t)))
ClaimNormalTarget(t) == toLowerCase(trim(CollapseWhitespace(StripWrappingQuotes(t))))

FirstContaining(textLines, searchText) ==
    CHOOSE i \in 1..Len(textLines) :
        /\ includes(ClaimNormalLine(textLines[i].text), ClaimNormalTarget(searchText))
        /\ \A j \in 1..(i - 1) :
              ~includes(ClaimNormalLine(textLines[j].text), ClaimNormalTarget(searchText))

\* C8: the search succeeds exactly when some line's normalized text contains
\* the normalized target; it then returns exactly 3 rows, highlighted index
\* 1, and row 1 is the matched segment of the first such line: a piece of
\* that line which normalizes to the normalized target.
C8_FuzzyRelocation ==
    (ret.returned /\ call.fn = "findTextContext") =>
        LET some == \E i \in 1..Len(call.textLines) :
                        includes(ClaimNormalLine(call.textLines[i].text),
                                 ClaimNormalTarget(call.searchText))
        IN  /\ some <=> ret.value.lines # <<NotFoundText>>
            /\ some =>
                 LET line == call.textLines[FirstContaining(call.textLines,
                                                            call.searchText)].text
                 IN  /\ Len(ret.value.lines) = 3
                     /\ ret.value.highlightedIndex = 1
                     /\ includes(line, ret.value.lines[2])
                     /\ ClaimNormalLine(ret.value.lines[2])
                           = ClaimNormalTarget(call.searchText)

(***************************************************************************)
(* The PDF context window (C9).                                            *)
(***************************************************************************)
\* the text of the line next above y on the page (next higher y), if any
TextAbove(textLines, y) ==
    LET higher == {i \in 1..Len(textLines) : textLines[i].y > y}
    IN  IF higher = {} THEN EmptyText
        ELSE textLines[CHOOSE i \in higher :
                          \A j \in higher : textLines[i].y <= textLines[j].y].text

\* the text of the line next below y on the page (next lower y), if any
TextBelow(textLines, y) ==
    LET lower == {i \in 1..Len(textLines) : textLines[i].y < y}
    IN  IF lower = {} THEN EmptyText
        ELSE textLines[CHOOSE i \in lower :
                          \A j \in lower : textLines[i].y >= textLines[j].y].text

\* C9: the rows of the PDF context window are, in this order, the line
\* immediately above the target line on the page, the target line and the
\* line immediately below it; with no line above, the first row is empty.
C9_RowsAboveTargetBelow ==
    (ret.returned /\ call.fn = "pdfExtractContextFromLines" /\ call.textLines # <<>>) =>
        LET h == PdfHighlightedLineIndex(call.textLines, call.targetY, call.targetHeight)
            target == call.textLines[h + 1]
        IN  ret.value.lines = << TextAbove(call.textLines, target.y),
                                 target.text,
                                 TextBelow(call.textLines, target.y) >>

(***************************************************************************)
(* The highlighted row (C23) and the split of the matched line (C24).      *)
(***************************************************************************)
\* the text of the line the DOCX window is about: the line of the target
\* paragraph with the requested startIndex, else the paragraph's first line
DocxTargetText(textLines, p, startIndex) ==
    LET inPara == {i \in 1..Len(textLines) : textLines[i].paragraphIndex = p}
        exact  == {i \in inPara : textLines[i].startIndex = startIndex}
        pick   == IF exact # {} THEN exact ELSE inPara
    IN  textLines[CHOOSE i \in pick : \A j \in pick : i <= j].text

\* a target line was found by the call that returned
TargetFound ==
    /\ ret.returned
    /\ \/ /\ call.fn = "docxExtractContextFromLines"
          /\ \E i \in 1..Len(call.textLines) :
                call.textLines[i].paragraphIndex = call.targetParagraphIndex
       \/ /\ call.fn = "pdfExtractContextFromLines"
          /\ call.textLines # <<>>

TargetText ==
    IF call.fn = "docxExtractContextFromLines"
    THEN DocxTargetText(call.textLines, call.targetParagraphIndex, call.startIndex)
    ELSE call.textLines[PdfHighlightedLineIndex(call.textLines, call.targetY,
                                                call.targetHeight) + 1].text

\* C23: whenever extractContextFromLines finds a target line, the row at the
\* returned highlightedIndex is the text of the target line.
C23_HighlightedRowIsTarget ==
    TargetFound => ret.value.lines[ret.value.highlightedIndex + 1] = TargetText

\* a row of the window as a segment of the line: the placeholder is empty
Segment(row) == IF row = Nbsp THEN <<>> ELSE row

\* C24: on a match findTextContext splits the matched line into three
\* consecutive segments: before + matched + after is the line's text, and the
\* matched segment normalizes to the normalized target.
C24_SplitIsPartitionOfLine ==
    (ret.returned /\ call.fn = "findTextContext" /\ ret.value.lines # <<NotFoundText>>) =>
        LET line == call.textLines[FirstContaining(call.textLines, call.searchText)].text
            rows == ret.value.lines
        IN  /\ Segment(rows[1]) \o rows[2] \o Segment(rows[3]) = line
            /\ ClaimNormalLine(rows[2]) = ClaimNormalTarget(call.searchText)

(***************************************************************************)
(* Sampling (C10).                                                         *)
(***************************************************************************)
Elems(s) == {s[i] : i \in 1..Len(s)}

\* C10: every sampler returns exactly min(k, |items|) elements, pairwise
\* distinct elements of items, and all of items when k >= |items|, whatever
\* the random comparator answered.
C10_SampleSizeAndDistinct ==
    (smp.name \in Samplers /\ smp.result.returned) =>
        LET out == smp.result.value.elems
        IN  /\ Len(out) = Min(smp.count, Len(smp.input))
            /\ \A i, j \in 1..Len(out) : out[i] = out[j] => i = j
            /\ Elems(out) \subseteq Elems(smp.input)
            /\ smp.count >= Len(smp.input) => Elems(out) = Elems(smp.input)

C10_Witness ==
    /\ smp.name = "getRandomDOCXSnippets" /\ smp.result.returned
    /\ Len(smp.input) = 4 /\ smp.count = 2
    /\ smp.result.value.elems = <<smp.input[4], smp.input[2]>>

(***************************************************************************)
(* The samplers and their input (C11).                                     *)
(***************************************************************************)
\* C11: the input array of a sampler call keeps its elements and their
\* order, during the call and when the caller later changes the returned
\* sample, for every count.
C11_InputUnchanged ==
    smp.name \in Samplers => smp.snippets = smp.input

=============================================================================
